---- MODULE Spec2Model ----
(***************************************************************************)
(* A model of urfu-online/edx-reports: the retry wrapper, the two course   *)
(* enumeration loops, the batch driver of main.py and the report           *)
(* correlation of course_reports.py.                                       *)
(*                                                                         *)
(* The specifications share the variables:                                 *)
(*   SpecRetry    one call of retry_operation on an arbitrary operation    *)
(*   SpecCatalog  one call of main.get_all_courses or of                   *)
(*                course_reports.get_all_courses against a paged endpoint  *)
(*   SpecMain     one run of main(): login, identity probe, enumeration,   *)
(*                batch loop                                               *)
(*   SpecReports  one call of process_courses_data                         *)
(*   SpecCorrelator  scan_grade_reports and process_courses_data, the run  *)
(*                repeated over the same tree and course list              *)
(*   SpecIds      extract_course_short_id and extract_course_run on an id  *)
(*   SpecProgram  main.py as a script: configuration check, then main()    *)
(*   SpecTrigger  the report trigger of one course, through the retry      *)
(*                wrapper                                                  *)
(*   SpecLogin    one call of create_session_with_login                    *)
(*   SpecCatalogLive  SpecCatalog, the enumeration going on while it has   *)
(*                a next request                                           *)
(*   SpecMainLive  SpecMain, also against endpoints whose every page has   *)
(*                a next pointer, the run going on while it has a step     *)
(* Every HTTP exchange, sleep and operation call is appended to `events`,  *)
(* and every error line the code logs that the model follows to `log`.     *)
(***************************************************************************)
EXTENDS Integers, Sequences, FiniteSets, TLC

VARIABLES
    events,        \* history: every operation call, sleep and HTTP request, in order
    max_retries,   \* retry_operation: parameter max_retries
    initial_delay, \* retry_operation: parameter delay as passed by the caller
    delay,         \* retry_operation: local delay (doubled after a failed attempt)
    attempt,       \* retry_operation: loop variable of range(max_retries)
    r_status,      \* retry_operation: "idle", "loop", "returned" or "raised"
    r_result,      \* retry_operation: value returned / error raised
    client,        \* which enumeration loop runs: "main", "dashboard" or "none"
    catalog,       \* the course-listing endpoint: [last, odd, even, noid]
    courses,       \* get_all_courses: local courses
    page,          \* get_all_courses: local page
    c_status,      \* get_all_courses: "idle", "loop", "returned" or "raised"
    c_result,      \* get_all_courses: list returned / error raised
    pc,            \* main: the step main() is at
    session,       \* the requests.Session: cookies held and default headers
    csrftoken,     \* create_session_with_login: local csrftoken
    l_status,      \* create_session_with_login: "idle", "running", "returned", "raised"
    loop_i,        \* main: i of `for i, course in enumerate(courses, 1)`
    success_count, \* main: success_count
    failure_count, \* main: failure_count
    exit_code,     \* main: the value main() returned (None while it runs)
    l_error,       \* create_session_with_login: the exception it raised, if any
    log,           \* the logger.error / logger.critical lines written, <<source line, text>>
    platform,      \* how the platform's identity endpoints answer during the run
    rep_courses,   \* process_courses_data: parameter courses
    df_reports,    \* process_courses_data: parameter df_reports (the descriptor table)
    now,           \* process_courses_data: local now, in minutes
    course_i,      \* process_courses_data: position of `for course in courses`
    rtype_i,       \* process_courses_data: position of `for rtype in [...]`
    p_data,        \* process_courses_data: local data (the rows appended so far)
    p_status,      \* process_courses_data: "idle", "loop", "returned" or "raised"
    tree,          \* the reports directory as os.walk yields it: <<root, file name>>
    scan_i,        \* scan_grade_reports: position of the walk
    scan_rows,     \* scan_grade_reports: local rows
    s_status,      \* scan_grade_reports: "idle", "scan" or "returned"
    s_result,      \* scan_grade_reports: the table returned, [columns, rows]
    run_no,        \* the number of the correlator run (reports.py 42-46)
    first_run,     \* how the first correlator run ended: [status, table, now]
    id_in,         \* the course id given to extract_course_short_id / extract_course_run
    id_short,      \* extract_course_short_id: the value returned, once returned
    id_run,        \* extract_course_run: the value returned, once returned
    env            \* the environment of main.py after load_dotenv()

retryVars == <<max_retries, initial_delay, delay, attempt, r_status, r_result>>
catVars == <<client, catalog, courses, page, c_status, c_result>>
mainVars == <<pc, session, csrftoken, l_status, loop_i, success_count, failure_count, exit_code,
              l_error, log>>
repVars == <<rep_courses, df_reports, now, course_i, rtype_i, p_data, p_status>>
scanVars == <<tree, scan_i, scan_rows, s_status, s_result, run_no, first_run>>
idVars == <<id_in, id_short, id_run>>
vars == <<events, retryVars, catVars, mainVars, platform, repVars, scanVars, idVars, env>>

None == "None"

(***************************************************************************)
(* Sequence helpers.                                                       *)
(***************************************************************************)
RECURSIVE Filter(_, _)
\* the subsequence of s whose elements have first component tag
Filter(s, tag) ==
    IF s = <<>> THEN <<>>
    ELSE IF Head(s)[1] = tag THEN <<Head(s)>> \o Filter(Tail(s), tag)
         ELSE Filter(Tail(s), tag)

RECURSIVE Pow2(_)
Pow2(n) == IF n <= 0 THEN 1 ELSE 2 * Pow2(n - 1)

(***************************************************************************)
(* retry_operation (main.py 416-431).                                      *)
(***************************************************************************)
MaxRetries == 4
RetryCounts == -1 .. MaxRetries
DelaySamples == {1, 5}
\* what one call of operation() can do: return a value (None is one) or
\* raise an error
OpOutcomes ==
    [ok : {TRUE}, val : {"v1", "v2", None}] \cup [ok : {FALSE}, val : {"e1", "e2"}]

\* for attempt in range(max_retries): the loop has another iteration
RetryHasIteration == r_status = "loop" /\ attempt < max_retries

\* (mutation of RetrySleeps: the last failed attempt sleeps as well)
RetrySleepsAlways == attempt <= max_retries - 1

\* the sleep of the except branch: time.sleep(delay) when attempts remain
RetrySleeps == attempt < max_retries - 1

\* (mutation of NextDelay: the delay is not doubled)
NextDelayConstant(d) == d

\* the delay after a failed attempt that is followed by a sleep
NextDelay(d) == d * 2

\* one iteration of the for loop, the operation having behaved as `o`;
\* `pre` are the events of the operation itself
RetryIteration(o, pre) ==
    /\ RetryHasIteration
    /\ IF o.ok
       THEN /\ r_status' = "returned"
            /\ r_result' = o.val
            /\ events' = events \o pre
            /\ UNCHANGED <<delay, attempt>>
       ELSE IF RetrySleeps
            THEN /\ events' = events \o pre \o << <<"sleep", delay>> >>
                 /\ delay' = NextDelay(delay)
                 /\ attempt' = attempt + 1
                 /\ UNCHANGED <<r_status, r_result>>
            ELSE /\ r_status' = "raised"
                 /\ r_result' = o.val
                 /\ events' = events \o pre
                 /\ UNCHANGED <<delay, attempt>>
    /\ UNCHANGED <<max_retries, initial_delay>>

\* (mutation of RetryFallThrough: an exhausted range raises)
RetryFallThroughRaises ==
    /\ r_status = "loop"
    /\ ~(attempt < max_retries)
    /\ r_status' = "raised"
    /\ r_result' = "ValueError"
    /\ UNCHANGED <<events, max_retries, initial_delay, delay, attempt>>

\* range(max_retries) is exhausted without return or raise: the function
\* falls off its end and returns None
RetryFallThrough ==
    /\ r_status = "loop"
    /\ ~(attempt < max_retries)
    /\ r_status' = "returned"
    /\ r_result' = None
    /\ UNCHANGED <<events, max_retries, initial_delay, delay, attempt>>

InitRetryCall(n, d) ==
    /\ max_retries = n
    /\ initial_delay = d
    /\ delay = d
    /\ attempt = 0
    /\ r_status = "loop"
    /\ r_result = None

RetryIdle ==
    /\ max_retries = 0
    /\ initial_delay = 0
    /\ delay = 0
    /\ attempt = 0
    /\ r_status = "idle"
    /\ r_result = None

(***************************************************************************)
(* The course-listing endpoint /api/courses/v1/courses/.                   *)
(* A catalog has `last` pages (0: every page reports a next pointer), its  *)
(* odd pages hold `odd` courses and its even pages `even` courses; the     *)
(* courses at the positions `noid` carry no id.                            *)
(***************************************************************************)
MaxPages == 11
MaxPageLen == 2
PageCap == 10
PageSize == 100

Course(cat, p, i) == [page |-> p, idx |-> i, has_id |-> <<p, i>> \notin cat.noid]

PageLen(cat, p) == IF p % 2 = 1 THEN cat.odd ELSE cat.even

\* the JSON object {results, next} of page p
CatalogPage(cat, p) ==
    [results |-> [i \in 1 .. PageLen(cat, p) |-> Course(cat, p, i)],
     next |-> (cat.last = 0 \/ p < cat.last)]

\* what the endpoint can answer to one GET: a network error or timeout, or a
\* status with a body that is the page's JSON object, not JSON at all, or
\* JSON that is no object
PageStatuses == {200, 201, 302, 403, 500}
PageBodies == {"page", "badjson", "badshape"}
GoodResponse == [net |-> "ok", status |-> 200, body |-> "page"]
NetError == [net |-> "error", status |-> 0, body |-> "none"]
PageResponses ==
    [net : {"ok"}, status : PageStatuses, body : PageBodies] \cup {NetError}

\* an endpoint serves its catalog with status 200, except that its page
\* `bad_page` (0: none) is answered with `bad_resp`
Catalogs(lastPages, sizes, noids, badPages) ==
    {cat \in [last : lastPages, odd : sizes, even : sizes, noid : noids,
              bad_page : badPages, bad_resp : PageResponses] :
        (cat.bad_page = 0) = (cat.bad_resp = GoodResponse)}

EndpointAnswer(cat, p) == IF p = cat.bad_page THEN cat.bad_resp ELSE GoodResponse

\* the GET of one page, with params page and page_size, and its answer
PageRequest(p, resp) == <<"GET", "courses", p, PageSize, resp>>

\* (mutation of Extend: the new page replaces the collected courses)
ExtendReplaces(cs, rs) == rs

\* courses.extend(results)
Extend(cs, rs) == cs \o rs

(***************************************************************************)
(* main.get_all_courses (main.py 276-325): one iteration of `while         *)
(* has_more`, the endpoint answering `resp`.                               *)
(***************************************************************************)
\* (mutation of MainHasMore: the page cap is ignored)
MainHasMoreNoCap(data, p) == data.next

\* has_more after a page with results: a next pointer and page < 10
MainHasMore(data, p) == data.next /\ ~(p >= PageCap)

\* (mutation of MainPageFailureResult: a failed page discards the collected courses)
MainPageFailureDiscards(cs) == <<>>

\* the value returned after the break of a non-200 page or a JSONDecodeError
MainPageFailureResult(cs) == cs

\* (mutation of MainEmptyPageBreaks: an empty page does not end the loop)
MainEmptyPageIgnored(data) == FALSE

\* `if not results: break` (main.py 301-302)
MainEmptyPageBreaks(data) == data.results = <<>>

\* (mutation of MainExceptionResult: the collected courses survive the exception)
MainExceptionKeeps(cs) == cs

\* `except Exception: return []` (main.py 323-325)
MainExceptionResult(cs) == <<>>

MainGetCoursesStep ==
    LET resp == EndpointAnswer(catalog, page) IN
    /\ c_status = "loop"
    /\ page <= MaxPages
    /\ events' = Append(events, PageRequest(page, resp))
    /\ IF resp.net = "error" \/ (resp.status = 200 /\ resp.body = "badshape")
       THEN \* except Exception: return []
            /\ c_status' = "returned"
            /\ c_result' = MainExceptionResult(courses)
            /\ UNCHANGED <<courses, page>>
       ELSE IF resp.status # 200 \/ resp.body = "badjson"
       THEN \* break, then return courses
            /\ c_status' = "returned"
            /\ c_result' = MainPageFailureResult(courses)
            /\ UNCHANGED <<courses, page>>
       ELSE LET data == CatalogPage(catalog, page) IN
            IF MainEmptyPageBreaks(data)
            THEN /\ c_status' = "returned"
                 /\ c_result' = courses
                 /\ UNCHANGED <<courses, page>>
            ELSE /\ courses' = Extend(courses, data.results)
                 /\ IF MainHasMore(data, page)
                    THEN /\ page' = page + 1
                         /\ UNCHANGED <<c_status, c_result>>
                    ELSE /\ c_status' = "returned"
                         /\ c_result' = courses'
                         /\ UNCHANGED page
    /\ UNCHANGED <<client, catalog>>

(***************************************************************************)
(* course_reports.get_all_courses (course_reports.py 27-44): one iteration *)
(* of `while True`.                                                        *)
(***************************************************************************)
RaiseForStatusNever(status) == FALSE

\* requests' raise_for_status raises HTTPError for 4xx and 5xx
RaiseForStatus(status) == 400 <= status /\ status < 600

DashGetCoursesStep ==
    LET resp == EndpointAnswer(catalog, page) IN
    /\ c_status = "loop"
    /\ page <= MaxPages
    /\ events' = Append(events, PageRequest(page, resp))
    /\ IF resp.net = "error"
       THEN /\ c_status' = "raised"
            /\ c_result' = "Timeout"
            /\ UNCHANGED <<courses, page>>
       ELSE IF RaiseForStatus(resp.status)
       THEN /\ c_status' = "raised"
            /\ c_result' = "HTTPError"
            /\ UNCHANGED <<courses, page>>
       ELSE IF resp.body = "badjson"
       THEN /\ c_status' = "raised"
            /\ c_result' = "ValueError"
            /\ UNCHANGED <<courses, page>>
       ELSE IF resp.body = "badshape"
       THEN /\ c_status' = "raised"
            /\ c_result' = "AttributeError"
            /\ UNCHANGED <<courses, page>>
       ELSE LET data == CatalogPage(catalog, page) IN
            /\ courses' = Extend(courses, data.results)
            /\ IF ~data.next
               THEN /\ c_status' = "returned"
                    /\ c_result' = courses'
                    /\ UNCHANGED page
               ELSE /\ page' = page + 1
                    /\ UNCHANGED <<c_status, c_result>>
    /\ UNCHANGED <<client, catalog>>

InitCatalogCall(cl, cat) ==
    /\ client = cl
    /\ catalog = cat
    /\ courses = <<>>
    /\ page = 1
    /\ c_status = "loop"
    /\ c_result = None

CatalogIdle ==
    /\ client = "none"
    /\ catalog = [last |-> 1, odd |-> 0, even |-> 0, noid |-> {},
                  bad_page |-> 0, bad_resp |-> GoodResponse]
    /\ courses = <<>>
    /\ page = 1
    /\ c_status = "idle"
    /\ c_result = None

(***************************************************************************)
(* The session: the cookies it holds and the X-CSRFToken default header.   *)
(***************************************************************************)
NoToken == "none"
AuthCookies == {"sessionid", "edx-jwt-cookie-header-payload", "edx-jwt-cookie-signature"}
RequiredCookies == AuthCookies \cup {"csrftoken"}

\* the default headers of the session the model follows; a header that is
\* not set is Absent
Absent == "absent"
HeaderNames == {"Accept", "X-Requested-With", "USE-JWT-COOKIE", "X-CSRFToken", "Authorization"}

\* the headers after session.headers.update({...}) of lines 94-106
BrowserHeaders == [h \in HeaderNames |-> IF h = "Accept" THEN "text/html" ELSE Absent]

\* session.headers.update(upd)
HeadersUpdate(headers, upd) ==
    [h \in HeaderNames |-> IF h \in DOMAIN upd THEN upd[h] ELSE headers[h]]

\* if name in session.headers: del session.headers[name]
HeadersDelete(headers, name) == [headers EXCEPT ![name] = Absent]

\* lines 216-227: the headers for the API calls, X-CSRFToken being the local
\* csrftoken, and the Authorization header removed
ApiHeaders(headers, token) ==
    HeadersDelete(
        HeadersUpdate(headers,
            ("Accept" :> "application/json") @@ ("X-Requested-With" :> "XMLHttpRequest")
                @@ ("USE-JWT-COOKIE" :> "true") @@ ("X-CSRFToken" :> token)),
        "Authorization")

\* an exception (its type and message), and a line of the error log
Error(type, msg) == [type |-> type, msg |-> msg]
LogLine(line, text) == <<line, text>>
NoError == <<>>
Raised(err) == <<err>>

\* requests.Session() with the browser headers of lines 94-106
NewSession == [csrf_cookie |-> NoToken, cookies |-> {}, headers |-> BrowserHeaders]

(***************************************************************************)
(* get_user_info (main.py 237-274): the identity probes /api/user/v1/me,   *)
(* /u/<username> and /admin/. It returns a dict whatever happens.          *)
(***************************************************************************)
MeAnswers == {"neterr", "200json", "200nonjson", "other"}
ProbeAnswers == {"neterr", "200", "other"}
\* how the three endpoints answer; an endpoint that is never asked is "other"
ProbeInputs ==
    {pr \in [me : MeAnswers, profile : ProbeAnswers, admin : ProbeAnswers] :
        /\ pr.me \in {"neterr", "200json"} => pr.profile = "other"
        /\ pr.profile \in {"neterr", "200"} => pr.admin = "other"}

DefaultUserInfo == [is_staff |-> FALSE, is_superuser |-> FALSE, from |-> "default"]

GetUserInfo(pr) ==
    IF pr.me = "neterr"
    THEN [evts |-> << <<"GET", "me">> >>, info |-> DefaultUserInfo]
    ELSE IF pr.me = "200json"
    THEN [evts |-> << <<"GET", "me">> >>,
          info |-> [is_staff |-> TRUE, is_superuser |-> FALSE, from |-> "me"]]
    ELSE IF pr.profile = "neterr"
    THEN [evts |-> << <<"GET", "me">>, <<"GET", "profile">> >>, info |-> DefaultUserInfo]
    ELSE IF pr.profile = "200"
    THEN [evts |-> << <<"GET", "me">>, <<"GET", "profile">> >>,
          info |-> [is_staff |-> TRUE, is_superuser |-> FALSE, from |-> "profile"]]
    ELSE IF pr.admin = "200"
    THEN [evts |-> << <<"GET", "me">>, <<"GET", "profile">>, <<"GET", "admin">> >>,
          info |-> [is_staff |-> TRUE, is_superuser |-> TRUE, from |-> "admin"]]
    ELSE [evts |-> << <<"GET", "me">>, <<"GET", "profile">>, <<"GET", "admin">> >>,
          info |-> DefaultUserInfo]

(***************************************************************************)
(* generate_grade_report (main.py 327-414): one call for the course at     *)
(* position `target`, the platform answering `boot` to the bootstrap GET   *)
(* (sent only when the session holds no csrftoken cookie), `post` to the   *)
(* report POST and `pr` to the identity probes of the 403 diagnostic.      *)
(* Result: the events of the call, the session after it and the outcome    *)
(* (ok: the dict returned; not ok: the exception raised).                  *)
(***************************************************************************)
BootAnswers == {"neterr", "csrf", "nocsrf"}
ReportStatuses == {200, 201, 302, 403, 500}
ReportBodies == {"json", "nonjson", "badshape"}
ReportResponses ==
    [net : {"ok"}, status : ReportStatuses, body : ReportBodies]
        \cup {[net |-> "error", status |-> 0, body |-> "none"]}

\* lines 391-399: the value returned for an accepted response, by its body
ReportResultStrict(body) ==
    IF body = "json" THEN [ok |-> TRUE, val |-> "task"]
    ELSE IF body = "nonjson" THEN [ok |-> FALSE, val |-> "JSONDecodeError"]
    ELSE [ok |-> FALSE, val |-> "AttributeError"]

ReportResult(body) ==
    IF body = "json" THEN [ok |-> TRUE, val |-> "task"]
    ELSE IF body = "nonjson" THEN [ok |-> TRUE, val |-> "queued"]
    ELSE [ok |-> FALSE, val |-> "AttributeError"]

\* (mutation of DiagnosticRaises: a network error of a probe escapes)
DiagnosticRaisesOnNetError(pr) ==
    pr.me = "neterr" \/ pr.profile = "neterr" \/ pr.admin = "neterr"

\* lines 372-387: whether the diagnostic dump raises; it only logs, and
\* get_user_info returns a dict whatever its probes do (272-274)
DiagnosticRaises(pr) == FALSE

\* lines 373-387: the lines the diagnostic dump of a 403 logs: the presence
\* of each required cookie, then the rights get_user_info reported
Diagnostic(sess, pr) ==
    << LogLine(377, [c \in RequiredCookies |->
                        IF c = "csrftoken" THEN sess.csrf_cookie # NoToken
                        ELSE c \in sess.cookies]),
       LogLine(385, GetUserInfo(pr).info) >>

GenerateGradeReportUnchecked(sess, target, boot, post, pr) ==
    LET needBoot == sess.csrf_cookie = NoToken
        bootEvts == IF needBoot THEN << <<"GET", "home">> >> ELSE <<>>
        sess1 == IF needBoot /\ boot = "csrf"
                 THEN [sess EXCEPT !.csrf_cookie = "t_boot"]
                 ELSE sess
        postEvt == <<"POST", "report", target, sess1.csrf_cookie, post>>
        diagEvts == IF post.status = 403 THEN GetUserInfo(pr).evts ELSE <<>>
        diagLogs == IF post.status = 403 THEN Diagnostic(sess1, pr) ELSE <<>>
    IN
    IF needBoot /\ boot = "neterr"
    THEN [evts |-> bootEvts, sess |-> sess, logs |-> <<>>,
          outcome |-> [ok |-> FALSE, val |-> "ConnectionError"]]
    ELSE IF post.net = "error"
    THEN [evts |-> Append(bootEvts, postEvt), sess |-> sess1, logs |-> <<>>,
          outcome |-> [ok |-> FALSE, val |-> "ConnectionError"]]
    ELSE IF post.status = 403 /\ DiagnosticRaises(pr)
    THEN [evts |-> Append(bootEvts, postEvt) \o diagEvts, sess |-> sess1, logs |-> diagLogs,
          outcome |-> [ok |-> FALSE, val |-> <<"ConnectionError", 0>>]]
    ELSE IF post.status # 200 /\ RaiseForStatus(post.status)
    THEN [evts |-> Append(bootEvts, postEvt) \o diagEvts, sess |-> sess1, logs |-> diagLogs,
          outcome |-> [ok |-> FALSE, val |-> <<"HTTPError", post.status>>]]
    ELSE [evts |-> Append(bootEvts, postEvt) \o diagEvts, sess |-> sess1, logs |-> diagLogs,
          outcome |-> ReportResult(post.body)]

GenerateGradeReport(sess, target, boot, post, pr) ==
    LET needBoot == sess.csrf_cookie = NoToken
        bootEvts == IF needBoot THEN << <<"GET", "home">> >> ELSE <<>>
        sess1 == IF needBoot /\ boot = "csrf"
                 THEN [sess EXCEPT !.csrf_cookie = "t_boot"]
                 ELSE sess
        postEvt == <<"POST", "report", target, sess1.csrf_cookie, post>>
        diagEvts == IF post.status = 403 THEN GetUserInfo(pr).evts ELSE <<>>
        diagLogs == IF post.status = 403 THEN Diagnostic(sess1, pr) ELSE <<>>
    IN
    IF needBoot /\ boot = "neterr"
    THEN [evts |-> bootEvts, sess |-> sess, logs |-> <<>>,
          outcome |-> [ok |-> FALSE, val |-> "ConnectionError"]]
    ELSE IF sess1.csrf_cookie = NoToken
    THEN [evts |-> bootEvts, sess |-> sess1, logs |-> <<>>,
          outcome |-> [ok |-> FALSE, val |-> "CsrfUnavailable"]]
    ELSE IF post.net = "error"
    THEN [evts |-> Append(bootEvts, postEvt), sess |-> sess1, logs |-> <<>>,
          outcome |-> [ok |-> FALSE, val |-> "ConnectionError"]]
    ELSE IF post.status = 403 /\ DiagnosticRaises(pr)
    THEN [evts |-> Append(bootEvts, postEvt) \o diagEvts, sess |-> sess1, logs |-> diagLogs,
          outcome |-> [ok |-> FALSE, val |-> <<"ConnectionError", 0>>]]
    ELSE IF post.status # 200 /\ RaiseForStatus(post.status)
    THEN [evts |-> Append(bootEvts, postEvt) \o diagEvts, sess |-> sess1, logs |-> diagLogs,
          outcome |-> [ok |-> FALSE, val |-> <<"HTTPError", post.status>>]]
    ELSE [evts |-> Append(bootEvts, postEvt) \o diagEvts, sess |-> sess1, logs |-> diagLogs,
          outcome |-> ReportResult(post.body)]

(***************************************************************************)
(* main.py 30-46: the configuration read from the environment when the     *)
(* module is loaded.  A text is a sequence of tokens, "/" being the one    *)
(* the code looks for.                                                     *)
(***************************************************************************)
\* an environment variable: not set, or set to a text
Unset == [set |-> FALSE, value |-> <<>>]
SetTo(text) == [set |-> TRUE, value |-> text]

\* os.getenv(name, default)
Getenv(var, default) == IF var.set THEN var.value ELSE default

RECURSIVE RStrip(_)
\* str.rstrip("/")
RStrip(text) ==
    IF text # <<>> /\ text[Len(text)] = "/"
    THEN RStrip(SubSeq(text, 1, Len(text) - 1))
    ELSE text

DefaultBaseUrl == <<"https://courses.openedu.urfu.ru">>

\* the module globals BASE_URL, USERNAME, PASSWORD; None is the empty text
\* here, as the code only tests them with `not`
BASE_URL(e) == RStrip(Getenv(e.OPENEDU_BASE_URL, DefaultBaseUrl))
USERNAME(e) == Getenv(e.OPENEDU_USERNAME, <<>>)
PASSWORD(e) == Getenv(e.OPENEDU_PASSWORD, <<>>)

\* missing_vars
MissingVars(e) ==
    (IF BASE_URL(e) = <<>> THEN {"OPENEDU_BASE_URL"} ELSE {})
    \cup (IF USERNAME(e) = <<>> \/ PASSWORD(e) = <<>>
          THEN {"OPENEDU_USERNAME/OPENEDU_PASSWORD"} ELSE {})

\* the environments
Envs ==
    [OPENEDU_BASE_URL : {Unset, SetTo(<<>>), SetTo(<<"/">>), SetTo(<<"https://lms">>),
                         SetTo(<<"https://lms", "/">>)},
     OPENEDU_USERNAME : {Unset, SetTo(<<>>), SetTo(<<"user">>)},
     OPENEDU_PASSWORD : {Unset, SetTo(<<>>), SetTo(<<"secret">>)}]

SuppliedEnv ==
    [OPENEDU_BASE_URL |-> SetTo(<<"https://lms">>),
     OPENEDU_USERNAME |-> SetTo(<<"user">>),
     OPENEDU_PASSWORD |-> SetTo(<<"secret">>)]

\* the module is loaded: ValueError when a variable is missing, else main()
\* is called and starts create_session_with_login
ConfigCheckStep ==
    /\ pc = "config"
    /\ IF MissingVars(env) # {}
       THEN /\ pc' = "config_error"
            /\ UNCHANGED l_status
       ELSE /\ pc' = "login_home"
            /\ l_status' = "running"
    /\ UNCHANGED <<events, session, csrftoken, loop_i, success_count, failure_count, exit_code>>
    /\ UNCHANGED <<l_error, log>>

(***************************************************************************)
(* create_session_with_login (main.py 83-235), one action per request.     *)
(* Any exception is re-raised (233-235) into main's handler (535-537).     *)
(* A text is a sequence of tokens; "@" and the platform's unknown-user     *)
(* text are the tokens the code looks for.                                 *)
(***************************************************************************)
HomeAnswers == {"neterr", "csrf", "nocsrf"}
CsrfApiAnswers == {"neterr", "non200", "badjson", "notoken", "token"}
LoginStatuses == {200, 201, 403}
\* the body of the login response: a JSON object whose success flag is true,
\* false or missing, a text that is not JSON, or JSON that is not an object
LoginBodies == {"success", "failure", "noflag", "nonjson", "badshape"}
JsonObjects == {"success", "failure", "noflag"}

UnknownUser == "Unknown user email or username"
PlatformTexts == {<<UnknownUser>>, <<"Too many failed login attempts">>}

\* a field of the JSON object: missing, or holding a text
NoField == <<>>
Field(text) == <<text>>
FieldValues == {NoField} \cup {Field(t) : t \in PlatformTexts}

\* the answer to the login POST: its status and body, the value and error
\* fields of a JSON object, the auth cookies it sets, and what it does to
\* the csrftoken cookie
LoginResponses ==
    {r \in [net : {"ok"}, status : LoginStatuses, body : LoginBodies,
            value : FieldValues, error : FieldValues,
            sets : SUBSET AuthCookies, csrf : {"keep", "replace", "clear"}] :
        r.body \notin JsonObjects => (r.value = NoField /\ r.error = NoField)}
        \cup {[net |-> "error", status |-> 0, body |-> "none", value |-> NoField,
               error |-> NoField, sets |-> {}, csrf |-> "keep"]}

\* login_response.text: the body as sent
ResponseText(resp) ==
    IF resp.body \in JsonObjects
    THEN <<"{">> \o (IF resp.value = NoField THEN <<>> ELSE resp.value[1])
                 \o (IF resp.error = NoField THEN <<>> ELSE resp.error[1]) \o <<"}">>
    ELSE IF resp.body = "badshape" THEN <<"[]">>
    ELSE <<"Service unavailable">>

\* `token in text`
Contains(text, token) == \E i \in 1 .. Len(text) : text[i] = token

\* lines 143-146: the login identifier
Email(username) ==
    IF ~Contains(username, "@") THEN username \o <<"@urfu.online">> ELSE username

\* lines 176-181: error_msg, the text parsed from a refused login response
ErrorMsg(resp) ==
    IF resp.body \in JsonObjects
    THEN IF resp.value # NoField THEN resp.value[1]
         ELSE IF resp.error # NoField THEN resp.error[1]
         ELSE ResponseText(resp)
    ELSE ResponseText(resp)

\* line 192: error_value
ErrorValue(resp) ==
    IF resp.value # NoField THEN resp.value[1] ELSE <<"unknown authentication error">>

\* (mutation of StatusAccepted: every status is accepted)
StatusAcceptedAny(status) == TRUE

\* line 175: the statuses of an accepted login
StatusAccepted(status) == status \in {200, 201}

\* lines 165-202: how the login response is judged; ok, or the exception
\* raised with the error lines logged before it (182-186, 193)
LoginOutcome(resp, username) ==
    IF resp.net = "error"
    THEN [ok |-> FALSE, err |-> Error("ConnectionError", <<"connection failed">>), lines |-> <<>>]
    ELSE IF ~StatusAccepted(resp.status)
    THEN [ok |-> FALSE,
          err |-> Error("Exception", <<"login failed:">> \o ErrorMsg(resp)),
          lines |-> << LogLine(182, ErrorMsg(resp)) >>
                    \o IF Contains(ErrorMsg(resp), UnknownUser)
                       THEN << LogLine(185, <<"an email address is required">>),
                               LogLine(186, username \o <<"@urfu.online">>) >>
                       ELSE <<>>]
    ELSE IF resp.body = "nonjson"
    THEN [ok |-> TRUE, err |-> Error("none", <<>>), lines |-> <<>>]
    ELSE IF resp.body = "badshape"
    THEN [ok |-> FALSE, err |-> Error("AttributeError", <<"no attribute get">>), lines |-> <<>>]
    ELSE IF resp.body = "success"
    THEN [ok |-> TRUE, err |-> Error("none", <<>>), lines |-> <<>>]
    ELSE [ok |-> FALSE,
          err |-> Error("Exception", <<"login error:">> \o ErrorValue(resp)),
          lines |-> << LogLine(193, ErrorValue(resp)) >>]

\* (mutation of LoginFailurePc: main goes on after a failed login)
LoginFailureIgnored == "user_info"

\* where main is after create_session_with_login raised: its except branch
\* has returned 1
LoginFailurePc == "done"

\* create_session_with_login raises err after logging `lines`: the error is
\* logged (234), and main's handler logs it and returns 1 (535-537)
LoginRaises(err, lines) ==
    /\ l_status' = "raised"
    /\ l_error' = Raised(err)
    /\ log' = log \o lines \o << LogLine(234, err.msg), LogLine(536, err.msg) >>
    /\ pc' = LoginFailurePc
    /\ exit_code' = 1

LoginHomeSkipsFallback(resp) ==
    /\ pc = "login_home"
    /\ events' = Append(events, <<"GET", "home">>)
    /\ IF resp = "neterr"
       THEN /\ LoginRaises(Error("ConnectionError", <<"connection failed">>), <<>>)
            /\ UNCHANGED <<session, csrftoken>>
       ELSE LET tok == IF resp = "csrf" THEN "t_home" ELSE NoToken IN
            /\ session' = [session EXCEPT !.csrf_cookie = tok]
            /\ csrftoken' = tok
            /\ pc' = "login_post"
            /\ UNCHANGED <<l_status, exit_code, l_error, log>>
    /\ UNCHANGED <<loop_i, success_count, failure_count>>

\* step 1: GET of the base URL
LoginHome(resp) ==
    /\ pc = "login_home"
    /\ events' = Append(events, <<"GET", "home">>)
    /\ IF resp = "neterr"
       THEN /\ LoginRaises(Error("ConnectionError", <<"connection failed">>), <<>>)
            /\ UNCHANGED <<session, csrftoken>>
       ELSE LET tok == IF resp = "csrf" THEN "t_home" ELSE NoToken IN
            /\ session' = [session EXCEPT !.csrf_cookie = tok]
            /\ csrftoken' = tok
            /\ pc' = IF tok = NoToken THEN "login_csrf" ELSE "login_post"
            /\ UNCHANGED <<l_status, exit_code, l_error, log>>
    /\ UNCHANGED <<loop_i, success_count, failure_count>>

\* lines 124-133: the exception raised when the fallback gives no token
CsrfApiError(resp) ==
    CASE resp = "neterr" -> Error("ConnectionError", <<"connection failed">>)
      [] resp = "non200" -> Error("Exception", <<"csrf api status">>)
      [] resp = "badjson" -> Error("JSONDecodeError", <<"not json">>)
      [] OTHER -> Error("Exception", <<"no csrf token in the api answer">>)

\* step 1, fallback: GET of /csrf/api/v1/token
LoginCsrfApi(resp) ==
    /\ pc = "login_csrf"
    /\ events' = Append(events, <<"GET", "csrf_api">>)
    /\ IF resp = "token"
       THEN /\ session' = [session EXCEPT !.csrf_cookie = "t_api"]
            /\ csrftoken' = "t_api"
            /\ pc' = "login_post"
            /\ UNCHANGED <<l_status, exit_code, l_error, log>>
       ELSE /\ LoginRaises(CsrfApiError(resp), <<>>)
            /\ UNCHANGED <<session, csrftoken>>
    /\ UNCHANGED <<loop_i, success_count, failure_count>>

\* the login response is accepted: status 200/201 and not a JSON object
\* whose success flag is false or missing
LoginAccepted(resp) ==
    /\ resp.net = "ok"
    /\ resp.status \in {200, 201}
    /\ resp.body \in {"success", "nonjson"}

\* lines 205-213: the warning about missing cookies, if any is missing
MissingCookies(sess) ==
    {c \in RequiredCookies :
        IF c = "csrftoken" THEN sess.csrf_cookie = NoToken ELSE c \notin sess.cookies}

\* the cookies of the session after the login response
AfterLoginCookies(sess, resp) ==
    [sess EXCEPT !.csrf_cookie = CASE resp.csrf = "keep" -> sess.csrf_cookie
                                   [] resp.csrf = "replace" -> "t_login"
                                   [] OTHER -> NoToken,
                 !.cookies = resp.sets]

\* steps 2 and 3: POST /login_ajax, cookie check, default headers
LoginPost(resp) ==
    /\ pc = "login_post"
    /\ events' = Append(events, <<"POST", "login", csrftoken, Email(USERNAME(env)), resp>>)
    /\ LET o == LoginOutcome(resp, USERNAME(env)) IN
       IF o.ok
       THEN /\ session' = [AfterLoginCookies(session, resp)
                               EXCEPT !.headers = ApiHeaders(session.headers, csrftoken)]
            /\ l_status' = "returned"
            /\ pc' = "user_info"
            /\ UNCHANGED <<exit_code, l_error, log>>
       ELSE /\ LoginRaises(o.err, o.lines)
            /\ UNCHANGED session
    /\ UNCHANGED <<csrftoken, loop_i, success_count, failure_count>>

\* (mutation of MainMaxRetries: one attempt more)
MainMaxRetriesOneMore == 2 + 1

(***************************************************************************)
(* main (main.py 433-540).                                                 *)
(***************************************************************************)
MainMaxRetries == 2
MainDelay == 5
PacingDelay == 2

\* step 2: get_user_info(session); its result is only logged
MainUserInfoStep ==
    /\ pc = "user_info"
    /\ events' = events \o GetUserInfo(platform).evts
    /\ pc' = "courses"
    /\ UNCHANGED <<session, csrftoken, l_status, loop_i, success_count, failure_count, exit_code>>
    /\ UNCHANGED <<l_error, log>>

\* step 3 is MainGetCoursesStep; then `if not courses: return 1`, else the
\* counters are reset and the for loop starts
MainCheckCourses ==
    /\ pc = "courses"
    /\ c_status = "returned"
    /\ IF c_result = <<>>
       THEN pc' = "done" /\ exit_code' = 1
       ELSE pc' = "loop" /\ UNCHANGED exit_code
    /\ loop_i' = 0
    /\ success_count' = 0
    /\ failure_count' = 0
    /\ UNCHANGED <<events, session, csrftoken, l_status>>
    /\ UNCHANGED <<l_error, log>>

\* (mutation of ExitCode: any failed course fails the run)
ExitCodeAnyFailure(fc, cs) == IF fc > 0 THEN 1 ELSE 0

\* lines 529-533
ExitCode(fc, cs) == IF fc = Len(cs) /\ cs # <<>> THEN 1 ELSE 0

\* the for loop is exhausted: statistics and the exit code
MainFinish ==
    /\ pc = "loop"
    /\ loop_i >= Len(c_result)
    /\ pc' = "done"
    /\ exit_code' = ExitCode(failure_count, c_result)
    /\ UNCHANGED <<events, session, csrftoken, l_status, loop_i, success_count, failure_count>>
    /\ UNCHANGED <<l_error, log>>

\* the next course has no id: it is skipped
MainSkipCourse ==
    /\ pc = "loop"
    /\ loop_i < Len(c_result)
    /\ ~c_result[loop_i + 1].has_id
    /\ loop_i' = loop_i + 1
    /\ UNCHANGED <<events, pc, session, csrftoken, l_status, success_count, failure_count, exit_code>>
    /\ UNCHANGED <<l_error, log>>

\* the next course has an id: retry_operation(..., max_retries=2, delay=5) is entered
MainStartCourse ==
    /\ pc = "loop"
    /\ loop_i < Len(c_result)
    /\ c_result[loop_i + 1].has_id
    /\ loop_i' = loop_i + 1
    /\ pc' = "retry"
    /\ max_retries' = MainMaxRetries
    /\ initial_delay' = MainDelay
    /\ delay' = MainDelay
    /\ attempt' = 0
    /\ r_status' = "loop"
    /\ r_result' = None
    /\ UNCHANGED <<events, session, csrftoken, l_status, success_count, failure_count, exit_code>>
    /\ UNCHANGED <<l_error, log>>

\* one attempt of the retry wrapper on generate_grade_report for course loop_i
MainTriggerStep(boot, post) ==
    /\ pc = "retry"
    /\ LET g == GenerateGradeReport(session, loop_i, boot, post, platform) IN
       /\ RetryIteration(g.outcome, << <<"op", attempt + 1, g.outcome, loop_i>> >> \o g.evts)
       /\ session' = g.sess
       /\ log' = log \o g.logs
    /\ UNCHANGED <<pc, csrftoken, l_status, loop_i, success_count, failure_count, exit_code, l_error>>

\* (mutation of AfterFailurePc: a failed course ends the loop)
AfterFailureBreaks == "done"

\* where the loop is after the except branch of a failed course: continue
AfterFailurePc == "loop"

\* the retry wrapper returned: success_count += 1 and the pacing sleep
MainCourseSucceeded ==
    /\ pc = "retry"
    /\ r_status = "returned"
    /\ success_count' = success_count + 1
    /\ events' = IF loop_i < Len(c_result)
                 THEN Append(events, <<"sleep", PacingDelay>>)
                 ELSE events
    /\ pc' = "loop"
    /\ r_status' = "idle"
    /\ UNCHANGED <<session, csrftoken, l_status, loop_i, failure_count, exit_code>>
    /\ UNCHANGED <<l_error, log>>
    /\ UNCHANGED <<max_retries, initial_delay, delay, attempt, r_result>>

\* (mutation of MainCourseFailed: the failed course is not counted)
MainCourseFailedUncounted ==
    /\ pc = "retry"
    /\ r_status = "raised"
    /\ pc' = AfterFailurePc
    /\ r_status' = "idle"
    /\ UNCHANGED <<events, session, csrftoken, l_status, loop_i, success_count, exit_code>>
    /\ UNCHANGED <<failure_count, l_error, log>>
    /\ UNCHANGED <<max_retries, initial_delay, delay, attempt, r_result>>

\* the retry wrapper raised: failure_count += 1, continue
MainCourseFailed ==
    /\ pc = "retry"
    /\ r_status = "raised"
    /\ failure_count' = failure_count + 1
    /\ pc' = AfterFailurePc
    /\ r_status' = "idle"
    /\ UNCHANGED <<events, session, csrftoken, l_status, loop_i, success_count, exit_code>>
    /\ UNCHANGED <<l_error, log>>
    /\ UNCHANGED <<max_retries, initial_delay, delay, attempt, r_result>>

MainIdle ==
    /\ pc = "idle"
    /\ session = NewSession
    /\ csrftoken = NoToken
    /\ l_status = "idle"
    /\ loop_i = 0
    /\ success_count = 0
    /\ failure_count = 0
    /\ exit_code = None
    /\ l_error = NoError
    /\ log = <<>>
    /\ platform = [me |-> "other", profile |-> "other", admin |-> "other"]

(***************************************************************************)
(* course_reports.py: the correlation of a course list with the table of   *)
(* report descriptors.  A string is a sequence of tokens, of which         *)
(* "course-v1:", "+" and "_" are the ones the code looks for; an instant   *)
(* is a number of minutes (file names carry minute resolution).            *)
(***************************************************************************)
MaxReportCourses == 2
MaxReports == 2
MinutesPerDay == 1440

ReportKinds ==
    <<"grade_report", "student_profile_info", "may_enroll_info", "anonymized_ids", "ORA_data">>

RECURSIVE FirstPlus(_, _)
\* the position of the first "+" of s at or after position from, 0 if there is none
FirstPlus(s, from) ==
    IF from > Len(s) THEN 0
    ELSE IF s[from] = "+" THEN from ELSE FirstPlus(s, from + 1)

RECURSIVE LastPlus(_, _)
\* the position of the last "+" of s at or before position upto, 0 if there is none
LastPlus(s, upto) ==
    IF upto = 0 THEN 0
    ELSE IF s[upto] = "+" THEN upto ELSE LastPlus(s, upto - 1)

ExtractShortIdGreedy(course_id) ==
    LET p2 == LastPlus(course_id, Len(course_id))
        p1 == IF p2 = 0 THEN 0 ELSE LastPlus(course_id, p2 - 1)
    IN  IF course_id # <<>> /\ course_id[1] = "course-v1:" /\ p1 > 1
        THEN SubSeq(course_id, 2, p1 - 1) \o <<"_">>
             \o SubSeq(course_id, p1 + 1, p2 - 1) \o <<"_">>
             \o SubSeq(course_id, p2 + 1, Len(course_id))
        ELSE course_id

\* re.match(r"course-v1:(.*?)\+(.*?)\+(.*)"): the two lazy groups end at the
\* first and the second "+", the third takes the rest; no match, no change
extract_course_short_id(course_id) ==
    LET p1 == FirstPlus(course_id, 2)
        p2 == IF p1 = 0 THEN 0 ELSE FirstPlus(course_id, p1 + 1)
    IN  IF course_id # <<>> /\ course_id[1] = "course-v1:" /\ p2 # 0
        THEN SubSeq(course_id, 2, p1 - 1) \o <<"_">>
             \o SubSeq(course_id, p1 + 1, p2 - 1) \o <<"_">>
             \o SubSeq(course_id, p2 + 1, Len(course_id))
        ELSE course_id

ExtractRunAfterFirstPlus(course_id) ==
    SubSeq(course_id, FirstPlus(course_id, 1) + 1, Len(course_id))

\* course_id.split("+")[-1]
extract_course_run(course_id) ==
    SubSeq(course_id, LastPlus(course_id, Len(course_id)) + 1, Len(course_id))

\* a value a function has not returned yet, and a value it has returned
NotReturned == <<>>
Returned(v) == <<v>>

IdsIdle ==
    /\ id_in = <<>>
    /\ id_short = NotReturned
    /\ id_run = NotReturned

\* the course ids of the course lists
CourseIdSamples ==
    { <<"course-v1:", "U", "+", "P", "+", "f">>,
      <<"U", "_", "P", "_", "f">>,
      <<"course-v1:", "U", "+", "Q", "+", "f", "+", "x">> }

\* the course lists of at most n courses; a course's name is its number
CourseLists(n) ==
    UNION { { [i \in 1 .. m |-> [id |-> ids[i], name |-> <<"course", i>>]] :
                ids \in [1 .. m -> CourseIdSamples] } : m \in 0 .. n }

\* the date of a descriptor: the instant its file name carries, or none when
\* the date of the name did not parse
NoDate == <<>>
At(minutes) == <<minutes>>
Minutes(date) == date[1]

NowSamples == {10 * MinutesPerDay, 11 * MinutesPerDay - 1}
DateSamples ==
    {NoDate, At(0), At(7 * MinutesPerDay - 30), At(10 * MinutesPerDay + 60)}

\* a row of df_reports as scan_grade_reports builds it from one file
Descriptor(dir, cid, kind, date) ==
    [course_id |-> cid, report_type |-> kind, date |-> date,
     path |-> <<dir, cid, kind, date>>]

\* the files a reports tree may hold: two courses, two kinds, dated or not,
\* and one file name present in two directories
ReportSamples ==
    LET s1 == <<"U", "_", "P", "_", "f">>
        s2 == <<"U", "_", "Q", "_", "f", "+", "x">>
        pairs == {<<s1, "grade_report">>, <<s1, "ORA_data">>, <<s2, "grade_report">>}
    IN  { Descriptor("a", pr[1], pr[2], d) : pr \in pairs, d \in DateSamples }
        \cup { Descriptor("b", pr[1], pr[2], At(7 * MinutesPerDay - 30)) : pr \in pairs }

\* the descriptor tables of at most n rows
ReportTables(n) == {t \in SUBSET ReportSamples : Cardinality(t) <= n}

\* reports = df_reports[df_reports["course_id"] == cid_short] if not df_reports.empty else <empty>
CourseReports(df, cid_short) ==
    IF df # {} THEN {d \in df : d.course_id = cid_short} ELSE {}

\* sub = reports[reports["report_type"] == rtype]
KindReports(reports, rtype) == {d \in reports : d.report_type = rtype}

Dated(sub) == {d \in sub : d.date # NoDate}

SortedTopAscending(sub) ==
    IF Dated(sub) # {}
    THEN {d \in Dated(sub) : \A e \in Dated(sub) : Minutes(e.date) >= Minutes(d.date)}
    ELSE sub

\* sub.sort_values("date", ascending=False).iloc[0]: missing dates sort last,
\* equal dates in no defined order
SortedTop(sub) ==
    IF Dated(sub) # {}
    THEN {d \in Dated(sub) : \A e \in Dated(sub) : Minutes(e.date) <= Minutes(d.date)}
    ELSE sub

DaysInMinutes(n, date) == n - Minutes(date)

\* (now - date).days: timedelta.days is the floor of the difference in days
Days(n, date) == (n - Minutes(date)) \div MinutesPerDay

\* date.strftime("%Y-%m-%d %H:%M")
Strftime(date) == <<"%Y-%m-%d %H:%M", date>>

\* the dict appended to data
Row(course, rtype, last, n) ==
    [name |-> course.name,
     course |-> extract_course_short_id(course.id),
     run |-> extract_course_run(course.id),
     report_type |-> rtype,
     last_report |-> Strftime(last.date),
     days |-> Days(n, last.date),
     file |-> last.path]

\* the next (course, rtype) of the two nested loops
NextPair ==
    IF rtype_i < Len(ReportKinds)
    THEN rtype_i' = rtype_i + 1 /\ course_i' = course_i
    ELSE rtype_i' = 1 /\ course_i' = course_i + 1

\* one pass of the inner loop: a pair with descriptors appends the row of the
\* top one, or raises when that one has no date (now - None, NaT.strftime);
\* a pair without descriptors sets three locals and appends nothing
ProcessPairStep ==
    /\ p_status = "loop"
    /\ course_i <= Len(rep_courses)
    /\ LET course == rep_courses[course_i]
           rtype == ReportKinds[rtype_i]
           reports == CourseReports(df_reports, extract_course_short_id(course.id))
           sub == KindReports(reports, rtype)
       IN  IF sub # {}
           THEN \E last \in SortedTop(sub) :
                    IF last.date = NoDate
                    THEN /\ p_status' = "raised"
                         /\ UNCHANGED <<p_data, course_i, rtype_i>>
                    ELSE /\ p_data' = Append(p_data, Row(course, rtype, last, now))
                         /\ NextPair
                         /\ UNCHANGED p_status
           ELSE /\ NextPair
                /\ UNCHANGED <<p_data, p_status>>
    /\ UNCHANGED <<rep_courses, df_reports, now>>

\* return pd.DataFrame(data)
ProcessReturnStep ==
    /\ p_status = "loop"
    /\ course_i > Len(rep_courses)
    /\ p_status' = "returned"
    /\ UNCHANGED <<rep_courses, df_reports, now, course_i, rtype_i, p_data>>

InitProcessCall(cs, df, n) ==
    /\ rep_courses = cs
    /\ df_reports = df
    /\ now = n
    /\ course_i = 1
    /\ rtype_i = 1
    /\ p_data = <<>>
    /\ p_status = "loop"

ReportsIdle ==
    /\ rep_courses = <<>>
    /\ df_reports = {}
    /\ now = 0
    /\ course_i = 0
    /\ rtype_i = 0
    /\ p_data = <<>>
    /\ p_status = "idle"

(***************************************************************************)
(* course_reports.py: the parsing of report file names and the directory   *)
(* scan.  A file name is a sequence of tokens: "_", ".csv", a kind name, a *)
(* date of the shape \d{4}-\d{2}-\d{2}-\d{4}, or any other text.           *)
(***************************************************************************)
MaxFiles == 2

\* the texts of the shape \d{4}-\d{2}-\d{2}-\d{4}, with their digit groups
\* <<year, month, day, hour, minute>>
DateDigits ==
    [t \in {"1970-01-01-0000", "1970-01-07-2330", "1970-01-11-0100", "1970-13-01-0000"} |->
        CASE t = "1970-01-01-0000" -> <<1970, 1, 1, 0, 0>>
          [] t = "1970-01-07-2330" -> <<1970, 1, 7, 23, 30>>
          [] t = "1970-01-11-0100" -> <<1970, 1, 11, 1, 0>>
          [] t = "1970-13-01-0000" -> <<1970, 13, 1, 0, 0>>]

DateShaped(tok) == tok \in DOMAIN DateDigits

IsLeap(y) == (y % 4 = 0 /\ y % 100 # 0) \/ y % 400 = 0

DaysInMonth(y, m) ==
    IF m = 2 THEN (IF IsLeap(y) THEN 29 ELSE 28)
    ELSE IF m \in {4, 6, 9, 11} THEN 30 ELSE 31

RECURSIVE DaysBeforeMonth(_, _)
DaysBeforeMonth(y, m) ==
    IF m <= 1 THEN 0 ELSE DaysBeforeMonth(y, m - 1) + DaysInMonth(y, m - 1)

RECURSIVE DaysBeforeYear(_)
\* the days from 1970-01-01 to the first day of year y >= 1970
DaysBeforeYear(y) ==
    IF y <= 1970 THEN 0
    ELSE DaysBeforeYear(y - 1) + (IF IsLeap(y - 1) THEN 366 ELSE 365)

\* datetime.strptime(date_str, "%Y-%m-%d-%H%M").replace(tzinfo=timezone.utc),
\* None when strptime raises
Strptime(tok) ==
    LET g == DateDigits[tok] IN
    IF /\ g[1] >= 1970
       /\ g[2] \in 1 .. 12
       /\ g[3] \in 1 .. DaysInMonth(g[1], g[2])
       /\ g[4] \in 0 .. 23
       /\ g[5] \in 0 .. 59
    THEN At((DaysBeforeYear(g[1]) + DaysBeforeMonth(g[1], g[2]) + g[3] - 1) * MinutesPerDay
            + g[4] * 60 + g[5])
    ELSE NoDate

KindNames == {ReportKinds[k] : k \in 1 .. Len(ReportKinds)}

\* _(kind)_(\d{4}-\d{2}-\d{2}-\d{4})\.csv matches right after the first p tokens;
\* the pattern has no end anchor, what follows .csv is not looked at
MatchAt(s, p) ==
    /\ Len(s) >= p + 5
    /\ s[p + 1] = "_"
    /\ s[p + 2] \in KindNames
    /\ s[p + 3] = "_"
    /\ DateShaped(s[p + 4])
    /\ s[p + 5] = ".csv"

RECURSIVE FirstMatch(_, _)
\* re.match with the lazy group (.*?): the shortest prefix after which the
\* rest of the pattern matches, -1 if there is none
FirstMatch(s, p) ==
    IF p + 5 > Len(s) THEN -1
    ELSE IF MatchAt(s, p) THEN p ELSE FirstMatch(s, p + 1)

NoMatch == <<>>

\* parse_filename: NoMatch, or the dict it returns
parse_filename(filename) ==
    LET p == FirstMatch(filename, 0) IN
    IF p < 0 THEN NoMatch
    ELSE << [course_id |-> SubSeq(filename, 1, p),
             report_type |-> filename[p + 2],
             date |-> Strptime(filename[p + 4])] >>

ScanColumns == {"course_id", "report_type", "date", "path"}

\* one file of the walk: a parsed name gets its path and joins rows
ScanFileStep ==
    /\ s_status = "scan"
    /\ scan_i <= Len(tree)
    /\ LET root == tree[scan_i][1]
           f == tree[scan_i][2]
           parsed == parse_filename(f)
       IN  scan_rows' =
               IF parsed # NoMatch
               THEN scan_rows \cup
                        {[course_id |-> parsed[1].course_id,
                          report_type |-> parsed[1].report_type,
                          date |-> parsed[1].date,
                          path |-> <<root, f>>]}
               ELSE scan_rows
    /\ scan_i' = scan_i + 1
    /\ UNCHANGED <<tree, s_status, s_result, run_no, first_run>>

\* the walk is over: the table of rows, or the empty table with its columns
ScanReturnStep ==
    /\ s_status = "scan"
    /\ scan_i > Len(tree)
    /\ s_status' = "returned"
    /\ s_result' = [columns |-> IF scan_rows = {} THEN ScanColumns
                                ELSE UNION {DOMAIN r : r \in scan_rows},
                    rows |-> scan_rows]
    /\ UNCHANGED <<tree, scan_i, scan_rows, run_no, first_run>>

NoTable == [columns |-> {}, rows |-> {}]
NoRun == <<>>

InitScanCall(t) ==
    /\ tree = t
    /\ scan_i = 1
    /\ scan_rows = {}
    /\ s_status = "scan"
    /\ s_result = NoTable
    /\ run_no = 1
    /\ first_run = NoRun

ScanIdle ==
    /\ tree = <<>>
    /\ scan_i = 0
    /\ scan_rows = {}
    /\ s_status = "idle"
    /\ s_result = NoTable
    /\ run_no = 0
    /\ first_run = NoRun

\* ---- SpecRetry: retry_operation on an arbitrary operation ----
RetryAttempt ==
    /\ \E o \in OpOutcomes :
           RetryIteration(o, << <<"op", attempt + 1, o, 0>> >>)
    /\ UNCHANGED <<catVars, mainVars, platform, repVars, scanVars, idVars, env>>

RetryReturnNone == RetryFallThrough /\ UNCHANGED <<catVars, mainVars, platform, repVars, scanVars, idVars, env>>

InitRetry ==
    /\ events = <<>>
    /\ \E n \in RetryCounts, d \in DelaySamples : InitRetryCall(n, d)
    /\ CatalogIdle
    /\ MainIdle
    /\ ReportsIdle
    /\ ScanIdle
    /\ IdsIdle
    /\ env = SuppliedEnv

NextRetry == RetryAttempt \/ RetryReturnNone

SpecRetry == InitRetry /\ [][NextRetry]_vars

\* the operation calls and the sleeps of the history
OpCalls == Filter(events, "op")
Sleeps == Filter(events, "sleep")
FailedCalls == {i \in 1 .. Len(OpCalls) : ~OpCalls[i][3].ok}

\* ---- SpecCatalog: one enumeration by either client ----
MainGetCoursesPage ==
    /\ client = "main"
    /\ MainGetCoursesStep
    /\ UNCHANGED <<retryVars, mainVars, platform, repVars, scanVars, idVars, env>>

DashGetCoursesPage ==
    /\ client = "dashboard"
    /\ DashGetCoursesStep
    /\ UNCHANGED <<retryVars, mainVars, platform, repVars, scanVars, idVars, env>>

InitCatalog ==
    /\ events = <<>>
    /\ RetryIdle
    /\ MainIdle
    /\ ReportsIdle
    /\ ScanIdle
    /\ IdsIdle
    /\ env = SuppliedEnv
    /\ \E cl \in {"main", "dashboard"},
          cat \in Catalogs(0 .. MaxPages, 0 .. MaxPageLen, {{}}, 0 .. MaxPages) :
           InitCatalogCall(cl, cat)

NextCatalog == MainGetCoursesPage \/ DashGetCoursesPage

SpecCatalog == InitCatalog /\ [][NextCatalog]_vars

\* ---- SpecMain: one run of main() ----
MaxCourses == 2

\* the endpoints main() runs against: catalogs of one-course pages (or one
\* empty page), any of whose courses may lack an id, and any one of whose
\* pages may be answered by a network error (a timeout included), a 403 or a
\* 200 whose JSON body is not an object
MainCatalogs ==
    {cat \in Catalogs(1 .. MaxCourses, {0, 1},
                      SUBSET {<<p, 1>> : p \in 1 .. MaxCourses}, 0 .. MaxCourses) :
        /\ cat.odd = cat.even
        /\ cat.noid \subseteq {<<p, 1>> : p \in 1 .. cat.last}
        /\ cat.bad_page <= cat.last
        /\ cat.bad_resp \in {GoodResponse, NetError,
                              [net |-> "ok", status |-> 403, body |-> "page"],
                              [net |-> "ok", status |-> 200, body |-> "badshape"]}
        /\ cat.odd = 0 => (cat.last = 1 /\ cat.bad_page = 0)}

\* the answers of the platform to the login and report POSTs in a run of main()
MainLoginResponses ==
    {r \in LoginResponses :
        /\ r.value = NoField
        /\ r.error = NoField
        /\ <<r.sets, r.csrf>> \in {<<AuthCookies, "keep">>, <<{}, "clear">>}
        /\ LoginAccepted(r) => (r.status = 200 /\ r.body = "success")}
MainReportResponses ==
    {r \in ReportResponses :
        \/ r.status = 200 /\ r.body \in {"json", "nonjson"}
        \/ r.status \in {403, 500} /\ r.body = "nonjson"}
MainProbeInputs ==
    {pr \in ProbeInputs : pr.me \in {"200json", "other"} /\ pr.profile # "neterr" /\ pr.admin = "other"}

MainLoginHome ==
    /\ \E resp \in HomeAnswers : LoginHome(resp)
    /\ UNCHANGED <<retryVars, catVars, platform, repVars, scanVars, idVars, env>>

MainLoginCsrfApi ==
    /\ \E resp \in CsrfApiAnswers : LoginCsrfApi(resp)
    /\ UNCHANGED <<retryVars, catVars, platform, repVars, scanVars, idVars, env>>

MainLoginPost ==
    /\ \E resp \in MainLoginResponses : LoginPost(resp)
    /\ UNCHANGED <<retryVars, catVars, platform, repVars, scanVars, idVars, env>>

MainUserInfo == MainUserInfoStep /\ UNCHANGED <<retryVars, catVars, platform, repVars, scanVars, idVars, env>>

MainGetCourses ==
    /\ pc = "courses"
    /\ MainGetCoursesStep
    /\ UNCHANGED <<retryVars, mainVars, platform, repVars, scanVars, idVars, env>>

MainCoursesListed == MainCheckCourses /\ UNCHANGED <<retryVars, catVars, platform, repVars, scanVars, idVars, env>>

MainLoopSkip == MainSkipCourse /\ UNCHANGED <<retryVars, catVars, platform, repVars, scanVars, idVars, env>>

MainLoopStart == MainStartCourse /\ UNCHANGED <<catVars, platform, repVars, scanVars, idVars, env>>

MainTrigger ==
    /\ \E boot \in IF session.csrf_cookie = NoToken THEN BootAnswers ELSE {"nocsrf"},
          post \in MainReportResponses :
           MainTriggerStep(boot, post)
    /\ UNCHANGED <<catVars, platform, repVars, scanVars, idVars, env>>

MainLoopSucceeded == MainCourseSucceeded /\ UNCHANGED <<catVars, platform, repVars, scanVars, idVars, env>>

MainLoopFailed == MainCourseFailed /\ UNCHANGED <<catVars, platform, repVars, scanVars, idVars, env>>

MainLoopEnd == MainFinish /\ UNCHANGED <<retryVars, catVars, platform, repVars, scanVars, idVars, env>>

InitMain ==
    /\ events = <<>>
    /\ RetryIdle
    /\ \E cat \in MainCatalogs : InitCatalogCall("main", cat)
    /\ pc = "login_home"
    /\ session = NewSession
    /\ csrftoken = NoToken
    /\ l_status = "running"
    /\ loop_i = 0
    /\ success_count = 0
    /\ failure_count = 0
    /\ exit_code = None
    /\ l_error = NoError
    /\ log = <<>>
    /\ platform \in MainProbeInputs
    /\ ReportsIdle
    /\ ScanIdle
    /\ IdsIdle
    /\ env = SuppliedEnv

NextMain ==
    \/ MainLoginHome
    \/ MainLoginCsrfApi
    \/ MainLoginPost
    \/ MainUserInfo
    \/ MainGetCourses
    \/ MainCoursesListed
    \/ MainLoopSkip
    \/ MainLoopStart
    \/ MainTrigger
    \/ MainLoopSucceeded
    \/ MainLoopFailed
    \/ MainLoopEnd

SpecMain == InitMain /\ [][NextMain]_vars

\* the page requests of the history, and the page numbers they asked for
PageRequests == Filter(events, "GET")
PagesAsked == [i \in 1 .. Len(PageRequests) |-> PageRequests[i][3]]

RECURSIVE PagesConcat(_, _)
\* the results of pages 1 .. n of the catalog, in page order
PagesConcat(cat, n) ==
    IF n <= 0 THEN <<>> ELSE PagesConcat(cat, n - 1) \o CatalogPage(cat, n).results

\* every request so far was answered 200 with the page's JSON object
AllPagesServed ==
    \A i \in 1 .. Len(PageRequests) :
        LET resp == PageRequests[i][5] IN
        resp.net = "ok" /\ resp.status = 200 /\ resp.body = "page"

\* the requests so far asked for pages 1, 2, 3, ... in that order, 100 a page
PagesInOrder ==
    \A i \in 1 .. Len(PageRequests) :
        PageRequests[i][3] = i /\ PageRequests[i][4] = 100

\* enumeration over an n-page catalog: n requests, then the concatenation
EnumeratesAll(n) ==
    /\ PagesInOrder
    /\ Len(PageRequests) <= n
    /\ Len(PageRequests) = n => c_status = "returned"
    /\ c_status # "loop" =>
          /\ c_status = "returned"
          /\ Len(PageRequests) = n
          /\ c_result = PagesConcat(catalog, n)

\* the defaults of retry_operation's signature
DefaultMaxRetries == 2
DefaultDelay == 5

(***************************************************************************)
(* C1: when the operation fails k times (k < max_retries) and then         *)
(* succeeds, it has been invoked exactly k+1 times, the wrapper has slept  *)
(* exactly k times, for delay, 2*delay, 4*delay, ... after the 1st, 2nd,   *)
(* 3rd failure, each sleep between two invocations, and the wrapper has    *)
(* returned the value of the successful invocation at once.                *)
(***************************************************************************)
C1_RetrySucceedsAfterFailures ==
    (\E i \in 1 .. Len(OpCalls) : OpCalls[i][3].ok) =>
        LET c == Len(OpCalls)
            k == c - 1
        IN  /\ c <= max_retries
            /\ FailedCalls = 1 .. k
            /\ r_status = "returned"
            /\ r_result = OpCalls[c][3].val
            /\ Len(Sleeps) = k
            /\ \A i \in 1 .. k : Sleeps[i][2] = initial_delay * Pow2(i - 1)
            /\ Len(events) = c + k
            /\ \A i \in 1 .. k : events[2 * i - 1][1] = "op" /\ events[2 * i][1] = "sleep"
            /\ events[Len(events)][1] = "op"

\* max_retries = 3, two failures, then success: 3 invocations, sleeps d, 2d
C1_Witness ==
    /\ max_retries = 3
    /\ initial_delay = 5
    /\ r_status = "returned"
    /\ r_result = "v2"
    /\ events = << <<"op", 1, [ok |-> FALSE, val |-> "e1"], 0>>, <<"sleep", 5>>,
                   <<"op", 2, [ok |-> FALSE, val |-> "e2"], 0>>, <<"sleep", 10>>,
                   <<"op", 3, [ok |-> TRUE, val |-> "v2"], 0>> >>

(***************************************************************************)
(* C2: with max_retries = n >= 1 and an operation that fails every time,   *)
(* the operation is invoked exactly n times, the wrapper sleeps exactly    *)
(* n-1 times (never after the last failure) and re-raises the error of the *)
(* last invocation; n failures never end in anything but that raise.       *)
(***************************************************************************)
C2_RetryExhausted ==
    /\ Len(OpCalls) <= IF max_retries > 0 THEN max_retries ELSE 0
    /\ (max_retries >= 1 /\ FailedCalls = 1 .. max_retries) => r_status = "raised"
    /\ r_status = "raised" =>
          /\ max_retries >= 1
          /\ Len(OpCalls) = max_retries
          /\ FailedCalls = 1 .. max_retries
          /\ Len(Sleeps) = max_retries - 1
          /\ events[Len(events)][1] = "op"
          /\ r_result = OpCalls[max_retries][3].val

\* the defaults: 2 invocations separated by one sleep of 5, the second error raised
C2_Witness ==
    /\ max_retries = DefaultMaxRetries
    /\ initial_delay = DefaultDelay
    /\ r_status = "raised"
    /\ r_result = "e2"
    /\ events = << <<"op", 1, [ok |-> FALSE, val |-> "e1"], 0>>, <<"sleep", 5>>,
                   <<"op", 2, [ok |-> FALSE, val |-> "e2"], 0>> >>

C4_PageCap ==
    (/\ client = "main"
     /\ catalog.last = 0 \/ catalog.last > PageCap
     /\ catalog.odd > 0 /\ catalog.even > 0
     /\ AllPagesServed)
        => EnumeratesAll(PageCap)

C4_Witness ==
    /\ client = "main"
    /\ catalog.last = 0 /\ catalog.odd = 1 /\ catalog.even = 2
    /\ AllPagesServed
    /\ c_status = "returned"
    /\ Len(PageRequests) = 10
    /\ Len(c_result) = 15

(***************************************************************************)
(* C5: in main.get_all_courses, a page k answered with a status other than *)
(* 200, or with a body that is not JSON, is the last request: the function *)
(* returns (it does not raise) exactly the courses of pages 1..k-1, and    *)
(* page k is not asked for again.                                          *)
(***************************************************************************)
PageFailed(resp) ==
    resp.net = "ok" /\ (resp.status # 200 \/ resp.body = "badjson")

C5_PageFailureTruncates ==
    client = "main" =>
        \A k \in 1 .. Len(PageRequests) :
            PageFailed(PageRequests[k][5]) =>
                /\ k = Len(PageRequests)
                /\ PagesInOrder
                /\ c_status = "returned"
                /\ c_result = PagesConcat(catalog, k - 1)

\* page 3 is not JSON: the courses of pages 1 and 2 are returned
C5_Witness ==
    /\ client = "main"
    /\ Len(PageRequests) = 3
    /\ PageRequests[3][5] = [net |-> "ok", status |-> 200, body |-> "badjson"]
    /\ c_status = "returned"
    /\ catalog.odd = 2 /\ catalog.even = 1
    /\ Len(c_result) = 3

(***************************************************************************)
(* The batch run as the history shows it.                                  *)
(***************************************************************************)
\* the calls of generate_grade_report for the course at position j
CourseCalls(j) == LET ForJ(e) == e[4] = j IN SelectSeq(OpCalls, ForJ)

\* the course at position j was tried and its last call failed
CourseFailed(j) ==
    /\ CourseCalls(j) # <<>>
    /\ ~CourseCalls(j)[Len(CourseCalls(j))][3].ok

\* the course at position j was tried and a call succeeded
CourseSucceeded(j) == \E n \in 1 .. Len(CourseCalls(j)) : CourseCalls(j)[n][3].ok

\* the positions of the courses whose first call has been made, in call order
FirstCalls ==
    LET First(e) == e[2] = 1
        calls == SelectSeq(OpCalls, First)
    IN  [n \in 1 .. Len(calls) |-> calls[n][4]]

RECURSIVE PositionsWithId(_, _)
\* the positions 1 .. n of cs that hold a course with an id, ascending
PositionsWithId(cs, n) ==
    IF n = 0 THEN <<>>
    ELSE IF cs[n].has_id THEN Append(PositionsWithId(cs, n - 1), n)
         ELSE PositionsWithId(cs, n - 1)

Listed == c_status = "returned" /\ c_result # <<>>

(***************************************************************************)
(* C6: main() returns 1 exactly when authentication raised, or no course   *)
(* was discovered, or every course of the discovered list failed; in every *)
(* other outcome it returns 0.                                             *)
(***************************************************************************)
C6_ExitCode ==
    pc = "done" =>
        /\ exit_code \in {0, 1}
        /\ exit_code = 1 <=>
              \/ l_status = "raised"
              \/ c_status = "returned" /\ c_result = <<>>
              \/ Listed /\ \A j \in 1 .. Len(c_result) : CourseFailed(j)

\* one course succeeded and one failed: exit code 0
C6_Witness ==
    /\ pc = "done"
    /\ exit_code = 0
    /\ Len(c_result) = 2
    /\ CourseFailed(1)
    /\ CourseSucceeded(2)

(***************************************************************************)
(* C7: a course whose trigger failed (retries exhausted) never ends the    *)
(* batch loop: the courses are tried in list order, one after the other,   *)
(* and when main() is done every course with an id has been tried.         *)
(***************************************************************************)
C7_FailureDoesNotAbort ==
    /\ \A m, n \in 1 .. Len(OpCalls) : m <= n => OpCalls[m][4] <= OpCalls[n][4]
    /\ (pc = "done" /\ Listed) => FirstCalls = PositionsWithId(c_result, Len(c_result))

\* the first course failed twice, the second was tried all the same
C7_Witness ==
    /\ pc = "done"
    /\ Len(c_result) = 2
    /\ Len(CourseCalls(1)) = 2
    /\ CourseFailed(1)
    /\ CourseCalls(2) # <<>>

(***************************************************************************)
(* C8: once create_session_with_login has failed, whatever the step, main  *)
(* has returned 1 and has sent no identity probe, no course-listing        *)
(* request and no report-generation request.                               *)
(***************************************************************************)
C8_LoginFailureAborts ==
    l_status = "raised" =>
        /\ pc = "done"
        /\ exit_code = 1
        /\ \A n \in 1 .. Len(events) :
              /\ events[n][1] \in {"GET", "POST"}
              /\ events[n][2] \in {"home", "csrf_api", "login"}

\* the login POST, sent with the token of the fallback endpoint, is rejected
C8_Witness ==
    /\ l_status = "raised"
    /\ exit_code = 1
    /\ Len(events) = 3
    /\ events[1] = <<"GET", "home">>
    /\ events[2] = <<"GET", "csrf_api">>
    /\ events[3][1] = "POST"
    /\ events[3][2] = "login"
    /\ events[3][3] = "t_api"

\* ---- SpecReports: one call of process_courses_data ----
ProcessPair ==
    /\ ProcessPairStep
    /\ UNCHANGED <<events, retryVars, catVars, mainVars, platform, scanVars, idVars, env>>

ProcessReturn ==
    /\ ProcessReturnStep
    /\ UNCHANGED <<events, retryVars, catVars, mainVars, platform, scanVars, idVars, env>>

InitReports ==
    /\ events = <<>>
    /\ RetryIdle
    /\ CatalogIdle
    /\ MainIdle
    /\ ScanIdle
    /\ IdsIdle
    /\ env = SuppliedEnv
    /\ \E cs \in CourseLists(MaxReportCourses), df \in ReportTables(MaxReports),
          n \in NowSamples :
           InitProcessCall(cs, df, n)

NextReports == ProcessPair \/ ProcessReturn

SpecReports == InitReports /\ [][NextReports]_vars

\* the pair (course i, kind k) has been through the inner loop
PairDone(i, k) ==
    \/ p_status = "returned"
    \/ i < course_i
    \/ i = course_i /\ k < rtype_i

\* the descriptors of the pair (course i, kind k)
Matching(i, k) ==
    {d \in df_reports :
        /\ d.course_id = extract_course_short_id(rep_courses[i].id)
        /\ d.report_type = ReportKinds[k]}

\* the rows of the pair (course i, kind k)
RowsOf(i, k) ==
    {n \in 1 .. Len(p_data) :
        /\ p_data[n].name = rep_courses[i].name
        /\ p_data[n].report_type = ReportKinds[k]}

C10_OneRowPerPair ==
    p_status = "returned" =>
        /\ Len(p_data) = Len(ReportKinds) * Len(rep_courses)
        /\ \A i \in 1 .. Len(rep_courses), k \in 1 .. Len(ReportKinds) :
               Cardinality(RowsOf(i, k)) = 1

\* ---- SpecCorrelator: the dashboard's scan and correlation, run twice ----
\* the file names of a reports tree
FileNameSamples ==
    LET short == <<"U", "_", "P", "_", "f">>
        Name(kind, date, ext) == short \o <<"_", kind, "_", date>> \o ext
    IN  { Name("grade_report", "1970-01-07-2330", <<".csv">>),
          Name("grade_report", "1970-01-01-0000", <<".csv">>),
          Name("grade_report", "1970-01-11-0100", <<".csv">>),
          Name("grade_report", "1970-13-01-0000", <<".csv">>),
          Name("ORA_data", "1970-01-07-2330", <<".csv">>),
          Name("grade_report", "1970-01-07-2330", <<".csv", ".bak">>),
          Name("grade_report", "1970-01-07-2330", <<".txt">>),
          Name("final_report", "1970-01-07-2330", <<".csv">>),
          short \o <<"_", "grade_report", ".csv">>,
          <<"invalid", "_", "filename", ".csv">>,
          Name("grade_report", "1970-01-01-0000", <<".csv">>)
              \o <<"_", "grade_report", "_", "1970-01-07-2330", ".csv">> }

\* the files of a reports tree: every name in directory "a", one name also in "b"
FileSamples ==
    {<<"a", f>> : f \in FileNameSamples}
    \cup {<<"b", <<"U", "_", "P", "_", "f", "_", "grade_report", "_", "1970-01-07-2330", ".csv">> >>}

\* the walks of at most n distinct files
Trees(n) ==
    UNION { {t \in [1 .. m -> FileSamples] : \A i, j \in 1 .. m : t[i] = t[j] => i = j} :
            m \in 0 .. n }

ScanFile ==
    /\ ScanFileStep
    /\ UNCHANGED <<events, retryVars, catVars, mainVars, platform, repVars, idVars, env>>

ScanReturn ==
    /\ ScanReturnStep
    /\ UNCHANGED <<events, retryVars, catVars, mainVars, platform, repVars, idVars, env>>

\* df_all = process_courses_data(courses, df_reports), at an instant not
\* before the one of the run before
CorrelatorProcess ==
    /\ s_status = "returned"
    /\ p_status = "idle"
    /\ df_reports' = s_result.rows
    /\ \E n \in NowSamples : n >= now /\ now' = n
    /\ course_i' = 1
    /\ rtype_i' = 1
    /\ p_data' = <<>>
    /\ p_status' = "loop"
    /\ UNCHANGED <<rep_courses, events, retryVars, catVars, mainVars, platform, scanVars, idVars, env>>

\* the script is run again over the same tree and course list
CorrelatorRerun ==
    /\ run_no = 1
    /\ p_status \in {"returned", "raised"}
    /\ first_run' = <<[status |-> p_status, table |-> p_data, now |-> now]>>
    /\ run_no' = 2
    /\ scan_i' = 1
    /\ scan_rows' = {}
    /\ s_status' = "scan"
    /\ s_result' = NoTable
    /\ df_reports' = {}
    /\ course_i' = 0
    /\ rtype_i' = 0
    /\ p_data' = <<>>
    /\ p_status' = "idle"
    /\ UNCHANGED <<tree, rep_courses, now, events, retryVars, catVars, mainVars, platform, idVars, env>>

InitCorrelator ==
    /\ events = <<>>
    /\ RetryIdle
    /\ CatalogIdle
    /\ MainIdle
    /\ \E t \in Trees(MaxFiles) : InitScanCall(t)
    /\ IdsIdle
    /\ env = SuppliedEnv
    /\ rep_courses \in CourseLists(1)
    /\ df_reports = {}
    /\ now = 0
    /\ course_i = 0
    /\ rtype_i = 0
    /\ p_data = <<>>
    /\ p_status = "idle"

NextCorrelator ==
    \/ ScanFile
    \/ ScanReturn
    \/ CorrelatorProcess
    \/ ProcessPair
    \/ ProcessReturn
    \/ CorrelatorRerun

SpecCorrelator == InitCorrelator /\ [][NextCorrelator]_vars

\* the second run has ended
SecondRunEnded == run_no = 2 /\ p_status \in {"returned", "raised"}

\* no two descriptors of one course and kind carry the same timestamp
NoTies ==
    \A d, e \in df_reports :
        (d.course_id = e.course_id /\ d.report_type = e.report_type
            /\ d.date = e.date /\ d.date # NoDate) => d = e

\* the descriptor d is as many whole days old at instant n2 as at instant n1
SameAge(d, n1, n2) ==
    \E k \in -2 .. 12 :
        /\ k * MinutesPerDay <= n1 - Minutes(d.date)
        /\ n1 - Minutes(d.date) < (k + 1) * MinutesPerDay
        /\ k * MinutesPerDay <= n2 - Minutes(d.date)
        /\ n2 - Minutes(d.date) < (k + 1) * MinutesPerDay

\* the descriptors the rows of table t show
Shown(t) == {d \in df_reports : \E n \in 1 .. Len(t) : t[n].file = d.path}

(***************************************************************************)
(* C11 as stated: a second run of the correlator over the same tree and    *)
(* course list ends as the first and returns the identical table.          *)
(***************************************************************************)
C11_Original ==
    SecondRunEnded =>
        /\ p_status = first_run[1].status
        /\ p_status = "returned" => p_data = first_run[1].table

(***************************************************************************)
(* C11: a second run of the correlator over the same tree and course list  *)
(* ends as the first (both raise or both return), and returns the          *)
(* identical table when no course and kind has two descriptors of the same *)
(* timestamp and every descriptor the first table shows has the same age   *)
(* in whole days at both instants.                                         *)
(***************************************************************************)
C11_SameTableSameAges ==
    SecondRunEnded =>
        /\ p_status = first_run[1].status
        /\ (/\ p_status = "returned"
            /\ NoTies
            /\ \A d \in Shown(first_run[1].table) : SameAge(d, first_run[1].now, now))
           => p_data = first_run[1].table

\* two runs at different instants that return the same table of one row
C11_Witness ==
    /\ SecondRunEnded
    /\ p_status = "returned"
    /\ now # first_run[1].now
    /\ Len(p_data) = 1
    /\ p_data = first_run[1].table

\* the name f is <shortCourseId>_<kind>_<YYYY>-<MM>-<DD>-<HHMM>.csv and nothing else
Conforms(f) ==
    /\ Len(f) >= 5
    /\ f[Len(f) - 4] = "_"
    /\ f[Len(f) - 3] \in KindNames
    /\ f[Len(f) - 2] = "_"
    /\ DateShaped(f[Len(f) - 1])
    /\ f[Len(f)] = ".csv"

\* the files of the tree the scan has been through
Scanned == IF s_status = "returned" THEN 1 .. Len(tree) ELSE 1 .. (scan_i - 1)

\* the rows the scan built from the file at position i of the walk
RowsOfFile(i) == {r \in scan_rows : r.path = tree[i]}

(***************************************************************************)
(* C12: a scanned file whose name is <shortCourseId>_<kind>_<date>.csv     *)
(* with a valid date is parsed to course_id = <shortCourseId>, the whole   *)
(* prefix, report_type = <kind> and date = that date and time in UTC.      *)
(***************************************************************************)
C12_ParsesConformingName ==
    \A i \in Scanned :
        LET f == tree[i][2] IN
        (Conforms(f) /\ Strptime(f[Len(f) - 1]) # NoDate) =>
            \E r \in RowsOfFile(i) :
                /\ r.course_id = SubSeq(f, 1, Len(f) - 5)
                /\ r.report_type = f[Len(f) - 3]
                /\ r.date = Strptime(f[Len(f) - 1])

(***************************************************************************)
(* C13: the table scan_grade_reports returns has one row for every file    *)
(* whose name conforms to the grammar and no row for any other file (extra *)
(* characters after .csv included); without a conforming file it is empty  *)
(* with the columns course_id, report_type, date, path.                    *)
(***************************************************************************)
C13_OnlyConformingNames ==
    s_status = "returned" =>
        /\ \A i \in 1 .. Len(tree) :
               Cardinality({r \in s_result.rows : r.path = tree[i]})
                   = IF Conforms(tree[i][2]) THEN 1 ELSE 0
        /\ s_result.columns = ScanColumns

\* ---- SpecIds: the two id functions applied to one course id ----
MaxIdLen == 7

IdTokens == {"course-v1:", "+", "_", "a"}

\* the course ids of at most n tokens
Ids(n) == UNION {[1 .. m -> IdTokens] : m \in 0 .. n}

ExtractShortId ==
    /\ id_short = NotReturned
    /\ id_short' = Returned(extract_course_short_id(id_in))
    /\ UNCHANGED <<id_in, id_run>>
    /\ UNCHANGED <<events, retryVars, catVars, mainVars, platform, repVars, scanVars, env>>

ExtractRun ==
    /\ id_run = NotReturned
    /\ id_run' = Returned(extract_course_run(id_in))
    /\ UNCHANGED <<id_in, id_short>>
    /\ UNCHANGED <<events, retryVars, catVars, mainVars, platform, repVars, scanVars, env>>

InitIds ==
    /\ events = <<>>
    /\ RetryIdle
    /\ CatalogIdle
    /\ MainIdle
    /\ ReportsIdle
    /\ ScanIdle
    /\ env = SuppliedEnv
    /\ id_in \in Ids(MaxIdLen)
    /\ id_short = NotReturned
    /\ id_run = NotReturned

NextIds == ExtractShortId \/ ExtractRun

SpecIds == InitIds /\ [][NextIds]_vars

\* s has no "+" at the positions from .. to
PlusFree(s, from, to) == \A k \in from .. to : s[k] # "+"

\* s is course-v1:<A>+<B>+<C> with the two separating "+" at positions i and j
OfForm(s, i, j) ==
    /\ 1 < i /\ i < j /\ j <= Len(s)
    /\ s[1] = "course-v1:"
    /\ s[i] = "+" /\ s[j] = "+"
    /\ PlusFree(s, 2, i - 1)
    /\ PlusFree(s, i + 1, j - 1)

(***************************************************************************)
(* C14: extract_course_short_id maps course-v1:<A>+<B>+<C>, A and B being  *)
(* the texts up to the first and to the second "+", to <A>_<B>_<C>, and    *)
(* returns every id not of that form unchanged.                            *)
(***************************************************************************)
C14_ShortId ==
    id_short # NotReturned =>
        /\ \A i, j \in 1 .. Len(id_in) :
               OfForm(id_in, i, j) =>
                   id_short[1] = SubSeq(id_in, 2, i - 1) \o <<"_">>
                                 \o SubSeq(id_in, i + 1, j - 1) \o <<"_">>
                                 \o SubSeq(id_in, j + 1, Len(id_in))
        /\ (\A i, j \in 1 .. Len(id_in) : ~OfForm(id_in, i, j)) => id_short[1] = id_in

\* an id with three "+": the third stays in the short id
C14_Witness ==
    /\ id_in = <<"course-v1:", "a", "+", "a", "+", "a", "+">>
    /\ id_short = Returned(<<"a", "_", "a", "_", "a", "+">>)

(***************************************************************************)
(* C15: for a course id with at least one "+", extract_course_run returns  *)
(* what follows the last "+", and that run tag is a suffix of the short id *)
(* extract_course_short_id derives from the same id.                       *)
(***************************************************************************)
C15_RunTag ==
    (id_run # NotReturned /\ \E k \in 1 .. Len(id_in) : id_in[k] = "+") =>
        /\ \E j \in 1 .. Len(id_in) :
               /\ id_in[j] = "+"
               /\ PlusFree(id_in, j + 1, Len(id_in))
               /\ id_run[1] = SubSeq(id_in, j + 1, Len(id_in))
        /\ id_short # NotReturned =>
               /\ Len(id_run[1]) <= Len(id_short[1])
               /\ id_run[1] = SubSeq(id_short[1],
                                     Len(id_short[1]) - Len(id_run[1]) + 1,
                                     Len(id_short[1]))

\* the run tag of course-v1:a+a+_a is _a, the end of the short id a_a__a
C15_Witness ==
    /\ id_in = <<"course-v1:", "a", "+", "a", "+", "_", "a">>
    /\ id_run = Returned(<<"_", "a">>)
    /\ id_short = Returned(<<"a", "_", "a", "_", "_", "a">>)

\* the dashboard's loader cannot go on after the answer resp, and what it raises
DashPageError(resp) ==
    IF resp.net = "error" THEN "Timeout"
    ELSE IF 400 <= resp.status /\ resp.status <= 599 THEN "HTTPError"
    ELSE IF resp.body = "badjson" THEN "ValueError"
    ELSE "none"

(***************************************************************************)
(* C16: in course_reports.get_all_courses a page answered with an HTTP     *)
(* error status, with a body that is not JSON, or not answered in time, is *)
(* the last page requested, and the call ends by raising HTTPError,        *)
(* ValueError or Timeout: no list of courses is returned.                  *)
(***************************************************************************)
C16_DashboardErrorPropagates ==
    client = "dashboard" =>
        \A k \in 1 .. Len(PageRequests) :
            DashPageError(PageRequests[k][5]) # "none" =>
                /\ k = Len(PageRequests)
                /\ c_status = "raised"
                /\ c_result = DashPageError(PageRequests[k][5])

\* page 3 is answered 500 after two pages of courses: HTTPError, no list
C16_Witness ==
    /\ client = "dashboard"
    /\ Len(PageRequests) = 3
    /\ PageRequests[3][5].status = 500
    /\ courses # <<>>
    /\ c_status = "raised"
    /\ c_result = "HTTPError"

\* ---- SpecProgram: main.py run as a script, from the loading of the module ----
ConfigCheck ==
    /\ ConfigCheckStep
    /\ UNCHANGED <<retryVars, catVars, platform, repVars, scanVars, idVars, env>>

InitProgram ==
    /\ events = <<>>
    /\ RetryIdle
    /\ \E cat \in MainCatalogs : InitCatalogCall("main", cat)
    /\ pc = "config"
    /\ session = NewSession
    /\ csrftoken = NoToken
    /\ l_status = "idle"
    /\ loop_i = 0
    /\ success_count = 0
    /\ failure_count = 0
    /\ exit_code = None
    /\ l_error = NoError
    /\ log = <<>>
    /\ platform \in MainProbeInputs
    /\ ReportsIdle
    /\ ScanIdle
    /\ IdsIdle
    /\ env \in Envs

NextProgram ==
    \/ ConfigCheck
    \/ MainLoginHome
    \/ MainLoginCsrfApi
    \/ MainLoginPost
    \/ MainUserInfo
    \/ MainGetCourses
    \/ MainCoursesListed
    \/ MainLoopSkip
    \/ MainLoopStart
    \/ MainTrigger
    \/ MainLoopSucceeded
    \/ MainLoopFailed
    \/ MainLoopEnd

SpecProgram == InitProgram /\ [][NextProgram]_vars

\* the variable was not supplied: it is not set, or set to the empty text
NotSupplied(var) == ~var.set \/ var.value = <<>>

(***************************************************************************)
(* C17: when the base URL, the username or the password is not supplied,   *)
(* the program stops with a configuration error and no request has been    *)
(* sent to the platform.                                                   *)
(***************************************************************************)
C17_ConfigErrorBeforeNetwork ==
    (\/ NotSupplied(env.OPENEDU_BASE_URL)
     \/ NotSupplied(env.OPENEDU_USERNAME)
     \/ NotSupplied(env.OPENEDU_PASSWORD)) =>
        /\ pc \in {"config", "config_error"}
        /\ events = <<>>

\* ---- SpecTrigger: the report trigger of one course, through the retry wrapper ----
\* the catalog of one page holding one course with an id
OneCourseCatalog ==
    [last |-> 1, odd |-> 1, even |-> 0, noid |-> {}, bad_page |-> 0, bad_resp |-> GoodResponse]

\* the sessions create_session_with_login may hand over: the csrftoken cookie
\* kept, replaced or cleared by the login response
LoggedInSessions ==
    [csrf_cookie : {NoToken, "t_home", "t_login"}, cookies : {AuthCookies},
     headers : {ApiHeaders(BrowserHeaders, "t_home")}]

TriggerAttempt ==
    /\ \E boot \in BootAnswers, post \in ReportResponses : MainTriggerStep(boot, post)
    /\ UNCHANGED <<catVars, platform, repVars, scanVars, idVars, env>>

InitTrigger ==
    /\ events = <<>>
    /\ RetryIdle
    /\ client = "main"
    /\ catalog = OneCourseCatalog
    /\ courses = CatalogPage(OneCourseCatalog, 1).results
    /\ page = 1
    /\ c_status = "returned"
    /\ c_result = CatalogPage(OneCourseCatalog, 1).results
    /\ pc = "loop"
    /\ session \in LoggedInSessions
    /\ csrftoken = "t_home"
    /\ l_status = "returned"
    /\ loop_i = 0
    /\ success_count = 0
    /\ failure_count = 0
    /\ exit_code = None
    /\ l_error = NoError
    /\ log = <<>>
    /\ platform \in ProbeInputs
    /\ ReportsIdle
    /\ ScanIdle
    /\ IdsIdle
    /\ env = SuppliedEnv

NextTrigger ==
    \/ MainLoopStart
    \/ TriggerAttempt
    \/ MainLoopSucceeded
    \/ MainLoopFailed
    \/ MainLoopEnd

SpecTrigger == InitTrigger /\ [][NextTrigger]_vars

RECURSIVE OpBefore(_)
\* the position of the last call of generate_grade_report at or before position i
OpBefore(i) ==
    IF i = 0 THEN 0
    ELSE IF events[i][1] = "op" THEN i ELSE OpBefore(i - 1)

\* the event at position i is a report-generation POST that was answered
AnsweredReportPost(i) ==
    /\ events[i][1] = "POST"
    /\ events[i][2] = "report"
    /\ events[i][5].net = "ok"

(***************************************************************************)
(* C18: a call of generate_grade_report succeeds only when its             *)
(* report-generation POST was answered with status 200; with any other     *)
(* status (201 and 302 included) the call fails, and with an error status  *)
(* the failure carries the status.                                         *)
(***************************************************************************)
C18_SuccessOnlyOn200 ==
    \A i \in 1 .. Len(events) :
        (AnsweredReportPost(i) /\ events[i][5].status # 200) =>
            LET o == events[OpBefore(i)][3] IN
            /\ ~o.ok
            /\ (400 <= events[i][5].status /\ events[i][5].status <= 599) =>
                   /\ o.val[1] = "HTTPError"
                   /\ o.val[2] = events[i][5].status

\* what the step appends to the history
NewEvents == SubSeq(events', Len(events) + 1, Len(events'))

\* the step is one call of generate_grade_report by the retry wrapper
IsTriggerStep ==
    /\ pc = "retry"
    /\ Len(events') > Len(events)
    /\ events'[Len(events) + 1][1] = "op"

\* what C19 asks of one call of generate_grade_report
C19_Step ==
    IsTriggerStep =>
        LET new == NewEvents
            homes == {i \in 1 .. Len(new) : new[i][1] = "GET" /\ new[i][2] = "home"}
            posts == {i \in 1 .. Len(new) : new[i][1] = "POST"}
        IN  /\ Cardinality(homes) = IF session.csrf_cookie = NoToken THEN 1 ELSE 0
            /\ Cardinality(posts) <= 1
            /\ \A i \in posts :
                   /\ new[i][2] = "report"
                   /\ new[i][4] # NoToken
                   /\ new[i][4] = session'.csrf_cookie
                   /\ \A h \in homes : h < i
            /\ session'.csrf_cookie = NoToken => (posts = {} /\ ~new[1][3].ok)

(***************************************************************************)
(* C19: a call of generate_grade_report sends its POST only with a         *)
(* non-empty anti-forgery token: it issues the bootstrap GET exactly once  *)
(* when the session holds no csrftoken cookie and not at all otherwise, it *)
(* fails without a POST when the cookie is still absent, and the token of  *)
(* the POST is the csrftoken cookie the session then holds.                *)
(***************************************************************************)
C19_TokenBeforePost == [][C19_Step]_vars

\* a call that found no cookie, fetched one by the bootstrap GET and posted with it
C19_Witness ==
    /\ Len(events) >= 3
    /\ events[1][1] = "op"
    /\ events[2] = <<"GET", "home">>
    /\ events[3][1] = "POST"
    /\ events[3][4] = "t_boot"
    /\ session.csrf_cookie = "t_boot"

\* the step sends the request `kind` to the endpoint `what`
Sends(kind, what) ==
    /\ Len(events') = Len(events) + 1
    /\ events'[Len(events')][1] = kind
    /\ events'[Len(events')][2] = what

\* the bootstrap GET has been answered and nothing was sent since
AfterBootstrap ==
    /\ events = << <<"GET", "home">> >>
    /\ l_status = "running"

\* what C20 asks of one step of create_session_with_login
C20_Step ==
    /\ Sends("GET", "csrf_api") => (AfterBootstrap /\ session.csrf_cookie = NoToken)
    /\ (AfterBootstrap /\ session.csrf_cookie = NoToken /\ events' # events)
           => Sends("GET", "csrf_api")
    /\ Sends("POST", "login") =>
           /\ events'[Len(events')][3] # NoToken
           /\ events'[Len(events')][3] = session.csrf_cookie
    /\ (Sends("GET", "csrf_api") /\ session'.csrf_cookie = NoToken) =>
           /\ l_status' = "raised"
           /\ exit_code' = 1

(***************************************************************************)
(* C20: create_session_with_login requests the token-issuance endpoint     *)
(* exactly when the bootstrap GET left no csrftoken cookie; it sends the   *)
(* login POST only with a token in X-CSRFToken; when the fallback gives no *)
(* token, it raises and no login POST is ever sent.                        *)
(***************************************************************************)
C20_TokenBeforeLogin ==
    /\ [][C20_Step]_vars
    /\ [](\A i, j \in 1 .. Len(events) :
              (/\ events[i] = <<"GET", "csrf_api">>
               /\ events[j][1] = "POST"
               /\ events[j][2] = "login") => (i < j /\ events[j][3] = "t_api"))
    /\ []((l_status = "raised" /\ events = << <<"GET", "home">>, <<"GET", "csrf_api">> >>)
              => pc = "done")

\* no cookie from the bootstrap GET, a token from the fallback, login posted with it
C20_Witness ==
    /\ Len(events) >= 3
    /\ events[1] = <<"GET", "home">>
    /\ events[2] = <<"GET", "csrf_api">>
    /\ events[3][1] = "POST"
    /\ events[3][2] = "login"
    /\ events[3][3] = "t_api"
    /\ l_status = "returned"

\* the positions of the history at which a report POST was answered with 403
Forbidden == {i \in 1 .. Len(events) : AnsweredReportPost(i) /\ events[i][5].status = 403}

\* the positions of the error log at which a diagnostic dump starts
Dumps == {k \in 1 .. Len(log) : log[k][1] = 377}

(***************************************************************************)
(* C21: when the report POST is answered with 403, the diagnostic dump is  *)
(* made before the failure is raised: the presence of each of the four     *)
(* required cookies is logged, the identity lookup of get_user_info is     *)
(* sent right after the POST and its result logged; whatever the identity  *)
(* endpoints answer, the call raises the HTTP error of the 403.            *)
(***************************************************************************)
C21_DiagnosticThenOriginalError ==
    /\ \A i \in Forbidden :
           LET probes == GetUserInfo(platform).evts
               o == events[OpBefore(i)][3]
           IN  /\ i + Len(probes) <= Len(events)
               /\ SubSeq(events, i + 1, i + Len(probes)) = probes
               /\ probes[1] = <<"GET", "me">>
               /\ ~o.ok
               /\ o.val[1] = "HTTPError"
               /\ o.val[2] = 403
    /\ Cardinality(Dumps) = Cardinality(Forbidden)
    /\ \A k \in Dumps :
           /\ DOMAIN log[k][2] = RequiredCookies
           /\ \A c \in AuthCookies : log[k][2][c] = (c \in session.cookies)
           /\ log[k][2]["csrftoken"] = (session.csrf_cookie # NoToken)
           /\ k < Len(log)
           /\ log[k + 1] = LogLine(385, GetUserInfo(platform).info)

\* a 403 whose identity lookup met a network error on the profile page, the
\* last attempt of the retry wrapper having raised the HTTP error
C21_Witness ==
    /\ Forbidden # {}
    /\ platform.me = "200nonjson"
    /\ platform.profile = "neterr"
    /\ r_status = "raised"
    /\ \E i \in Forbidden : events[OpBefore(i)][2] = MainMaxRetries
    /\ Dumps # {}

\* the call at position i of the history failed because the anti-forgery
\* token was still unavailable after the bootstrap GET
AuthFailure(i) ==
    /\ events[i][1] = "op"
    /\ ~events[i][3].ok
    /\ i < Len(events)
    /\ events[i + 1][1] = "GET"
    /\ events[i + 1][2] = "home"
    /\ (i + 2 > Len(events) \/ events[i + 2][1] # "POST")
    /\ events[i][3].val = "CsrfUnavailable"

(***************************************************************************)
(* C22: a call of generate_grade_report that fails because the token is    *)
(* still unavailable after the bootstrap GET is not retried: it is the     *)
(* only call for its course, no retry sleep follows it, and the retry      *)
(* wrapper has raised as soon as the call has failed.                      *)
(***************************************************************************)
C22_AuthFailureNotRetried ==
    \A i \in 1 .. Len(events) :
        AuthFailure(i) =>
            /\ events[i][2] = 1
            /\ \A j \in 1 .. Len(events) :
                   (j # i /\ events[j][1] = "op") => events[j][4] # events[i][4]
            /\ \A j \in i .. Len(events) : events[j][1] # "sleep"
            /\ (pc = "retry" => r_status = "raised")

\* ---- SpecLogin: one call of create_session_with_login ----
\* the usernames of both shapes: a bare name, and an email address
Usernames == {<<"user">>, <<"user", "@", "example.org">>}

LoginEnvs == {[SuppliedEnv EXCEPT !.OPENEDU_USERNAME = SetTo(u)] : u \in Usernames}

LoginAnswered ==
    /\ \E resp \in LoginResponses : LoginPost(resp)
    /\ UNCHANGED <<retryVars, catVars, platform, repVars, scanVars, idVars, env>>

InitLogin ==
    /\ events = <<>>
    /\ RetryIdle
    /\ CatalogIdle
    /\ pc = "login_home"
    /\ session = NewSession
    /\ csrftoken = NoToken
    /\ l_status = "running"
    /\ loop_i = 0
    /\ success_count = 0
    /\ failure_count = 0
    /\ exit_code = None
    /\ l_error = NoError
    /\ log = <<>>
    /\ platform = [me |-> "other", profile |-> "other", admin |-> "other"]
    /\ ReportsIdle
    /\ ScanIdle
    /\ IdsIdle
    /\ env \in LoginEnvs

NextLogin ==
    \/ MainLoginHome
    \/ MainLoginCsrfApi
    \/ LoginAnswered

SpecLogin == InitLogin /\ [][NextLogin]_vars

\* the login POST has been sent and answered by the platform
LoginPosted ==
    /\ events # <<>>
    /\ events[Len(events)][1] = "POST"
    /\ events[Len(events)][2] = "login"
    /\ events[Len(events)][5].net = "ok"

\* the answer to the login POST, and the identifier it was sent with
LoginAnswer == events[Len(events)][5]
SubmittedEmail == events[Len(events)][4]

(***************************************************************************)
(* C23: for a login response with status 200 or 201 and a JSON body,       *)
(* create_session_with_login raises exactly when the body holds a success  *)
(* flag that is false, and the error then carries the body's value field;  *)
(* a JSON object without a success flag does not make it raise, nor does a *)
(* body that is not JSON.                                                  *)
(***************************************************************************)
C23_FailsOnlyOnFalseFlag ==
    (LoginPosted /\ LoginAnswer.status \in {200, 201}) =>
        /\ LoginAnswer.body \in JsonObjects =>
               /\ l_status = "raised" <=> LoginAnswer.body = "failure"
               /\ (l_status = "raised" /\ LoginAnswer.value # NoField) =>
                      l_error = Raised(Error("Exception",
                                             <<"login error:">> \o LoginAnswer.value[1]))
        /\ LoginAnswer.body = "nonjson" => l_status = "returned"

\* the textual error of a refused login response: the value field of a JSON
\* object, else its error field, else the body as sent
ParsedError(resp) ==
    IF resp.body \in JsonObjects /\ resp.value # NoField THEN resp.value[1]
    ELSE IF resp.body \in JsonObjects /\ resp.error # NoField THEN resp.error[1]
    ELSE ResponseText(resp)

(***************************************************************************)
(* C24: a login response whose status is neither 200 nor 201 makes         *)
(* create_session_with_login raise an error whose message is the textual   *)
(* error parsed from the body (the value field of a JSON object, else its  *)
(* error field, else the body as sent); no Session is returned and main    *)
(* goes no further.                                                        *)
(***************************************************************************)
C24_OnlyAcceptedStatuses ==
    (LoginPosted /\ LoginAnswer.status \notin {200, 201}) =>
        /\ l_status = "raised"
        /\ pc = "done"
        /\ l_error = Raised(Error("Exception", <<"login failed:">> \o ParsedError(LoginAnswer)))

\* a 403 whose JSON object holds an error field and no value field, and a
\* success flag that is true
C24_Witness ==
    /\ LoginPosted
    /\ LoginAnswer.status = 403
    /\ LoginAnswer.body = "success"
    /\ LoginAnswer.value = NoField
    /\ LoginAnswer.error = Field(<<"Too many failed login attempts">>)
    /\ l_error = Raised(Error("Exception", <<"login failed:", "Too many failed login attempts">>))

(***************************************************************************)
(* C25: the Session create_session_with_login returns has no Authorization *)
(* default header, has USE-JWT-COOKIE set to true and the AJAX marker, and *)
(* its X-CSRFToken default header is the value of the csrftoken cookie the *)
(* session holds on return, also when the login response replaced the      *)
(* cookie.                                                                 *)
(***************************************************************************)
C25_HeadersOfReturnedSession ==
    l_status = "returned" =>
        /\ session.headers["Authorization"] = Absent
        /\ session.headers["USE-JWT-COOKIE"] = "true"
        /\ session.headers["X-Requested-With"] = "XMLHttpRequest"
        /\ session.headers["X-CSRFToken"] = session.csrf_cookie

\* the Session carries the mark of a degraded authentication
Degraded(sess) == "degraded" \in DOMAIN sess /\ sess.degraded

(***************************************************************************)
(* C26: an accepted login that leaves one or more of the four required     *)
(* cookies missing does not make create_session_with_login raise: a        *)
(* Session is returned, and it is marked degraded exactly when a required  *)
(* cookie is missing.                                                      *)
(***************************************************************************)
C26_MissingCookiesDegrade ==
    /\ (LoginPosted /\ LoginAccepted(LoginAnswer)) => l_status = "returned"
    /\ l_status = "returned" => (Degraded(session) <=> MissingCookies(session) # {})

(***************************************************************************)
(* C29: the identifier sent with the login POST is the username when it    *)
(* holds an "@" and the username followed by "@urfu.online" otherwise; and *)
(* when the login is refused with the platform's unknown-user text, a      *)
(* logged error line names exactly the identifier that was sent, for both  *)
(* shapes of username.                                                     *)
(***************************************************************************)
C29_SubmittedIdentifierSurfaced ==
    (events # <<>> /\ events[Len(events)][1] = "POST" /\ events[Len(events)][2] = "login") =>
        /\ SubmittedEmail = IF \E i \in 1 .. Len(USERNAME(env)) : USERNAME(env)[i] = "@"
                            THEN USERNAME(env)
                            ELSE USERNAME(env) \o <<"@urfu.online">>
        /\ (/\ LoginPosted
            /\ LoginAnswer.status \notin {200, 201}
            /\ ParsedError(LoginAnswer) = <<UnknownUser>>)
               => \E k \in 1 .. Len(log) : log[k] = LogLine(186, SubmittedEmail)

\* the event at position k of the history is the pacing sleep of the batch loop
PacingSleep(k) == events[k][1] = "sleep" /\ events[k][2] = PacingDelay

\* the event at position i of the history is a call of generate_grade_report
IsCall(i) == events[i][1] = "op"

(***************************************************************************)
(* C27: between the calls for two consecutive courses the batch loop       *)
(* sleeps the pacing delay of 2 seconds, whether the earlier course        *)
(* succeeded or failed; and once the loop has ended, no pacing sleep       *)
(* stands after the calls of the last course.                              *)
(***************************************************************************)
C27_PacingBetweenCourses ==
    /\ \A i \in 1 .. Len(events) :
           (IsCall(i) /\ events[i][2] = 1 /\ \E j \in 1 .. i - 1 : IsCall(j)) =>
               \E k \in 1 .. i - 1 :
                   /\ PacingSleep(k)
                   /\ \A m \in k + 1 .. i - 1 : ~IsCall(m)
    /\ pc = "done" =>
           \A k \in 1 .. Len(events) :
               PacingSleep(k) => \E i \in k + 1 .. Len(events) : IsCall(i)

(***************************************************************************)
(* C28: a report POST answered with status 200 and a body that is not JSON *)
(* is a success: generate_grade_report returns the queued result, the      *)
(* retry wrapper returns it without calling again, and the batch loop      *)
(* counts the course as succeeded.                                         *)
(***************************************************************************)
C28_NonJsonIsSuccess ==
    \A i \in 1 .. Len(events) :
        (/\ AnsweredReportPost(i)
         /\ events[i][5].status = 200
         /\ events[i][5].body = "nonjson") =>
            LET o == events[OpBefore(i)][3] IN
            /\ o.ok
            /\ o.val = "queued"
            /\ \A j \in i + 1 .. Len(events) : ~IsCall(j)
            /\ pc = "retry" => (r_status = "returned" /\ r_result = "queued")
            /\ pc \in {"loop", "done"} => (success_count = 1 /\ failure_count = 0)
            /\ pc = "done" => exit_code = 0

\* a first attempt that failed, a second answered 200 without JSON, the
\* course counted as succeeded
C28_Witness ==
    /\ pc = "done"
    /\ success_count = 1
    /\ \E i \in 1 .. Len(events) :
           /\ AnsweredReportPost(i)
           /\ events[i][5].status = 200
           /\ events[i][5].body = "nonjson"
           /\ events[OpBefore(i)][2] = MainMaxRetries

(***************************************************************************)
(* C30: a descriptor without a timestamp (a name of the right structure    *)
(* whose date does not parse) is kept by the scan and sorted last: the row *)
(* of a pair that has a dated descriptor never shows an undated one, and a *)
(* pair whose descriptors are all undated still gets its row, with the     *)
(* path, and process_courses_data does not raise.                          *)
(***************************************************************************)
C30_UndatedSortedLast ==
    /\ \A i \in Scanned :
           LET f == tree[i][2] IN
           (Conforms(f) /\ Strptime(f[Len(f) - 1]) = NoDate) =>
               \E r \in RowsOfFile(i) : r.date = NoDate
    /\ p_status # "raised"
    /\ \A i \in 1 .. Len(rep_courses), k \in 1 .. Len(ReportKinds) :
           (PairDone(i, k) /\ Matching(i, k) # {}) =>
               /\ Cardinality(RowsOf(i, k)) = 1
               /\ \A n \in RowsOf(i, k) :
                      IF Dated(Matching(i, k)) # {}
                      THEN \E d \in Dated(Matching(i, k)) : p_data[n].file = d.path
                      ELSE /\ \E d \in Matching(i, k) : p_data[n].file = d.path
                           /\ p_data[n].days = None

\* ---- SpecCatalogLive: one enumeration by either client, which keeps running ----
\* the interpreter goes on to the next request of a loop that has not ended
\* (every request returns or times out)
SpecCatalogLive == InitCatalog /\ [][NextCatalog]_vars /\ WF_vars(NextCatalog)

\* the enumeration has ended: get_all_courses returned or raised
EnumerationEnded == c_status \in {"returned", "raised"}

\* a bound on the page requests an enumeration can still make: the loop is to
\* end by page 10, the one guard against an endless pagination in the code
PagesLeft == IF c_status = "loop" THEN PageCap + 1 - page ELSE 0

(***************************************************************************)
(* C31: each of the two course-enumeration loops, main.get_all_courses and *)
(* course_reports.get_all_courses, ends after finitely many page requests  *)
(* whatever the endpoint answers, an endpoint whose every page reports a   *)
(* next pointer included: every request of an enumeration lowers          *)
(* PagesLeft, which is never negative.                                     *)
(***************************************************************************)
C31_EnumerationTerminates ==
    /\ [](PagesLeft >= 0)
    /\ [][PagesLeft' < PagesLeft]_<<page, c_status>>


\* request i of the enumeration was answered 200 with a page whose results
\* list is empty
EmptyPageServed(i) ==
    LET resp == PageRequests[i][5] IN
    /\ resp.net = "ok" /\ resp.status = 200 /\ resp.body = "page"
    /\ CatalogPage(catalog, PageRequests[i][3]).results = <<>>

(***************************************************************************)
(* C36: in main.get_all_courses a page answered 200 with an empty results  *)
(* list ends the enumeration at once, also when that page reports a next   *)
(* pointer: it is the last page requested, and the function returns the    *)
(* courses of the pages before it.                                         *)
(***************************************************************************)
C36_EmptyPageEndsEnumeration ==
    client = "main" =>
        \A k \in 1 .. Len(PageRequests) :
            EmptyPageServed(k) =>
                /\ k = Len(PageRequests)
                /\ PagesInOrder
                /\ c_status = "returned"
                /\ c_result = PagesConcat(catalog, k - 1)

\* page 2 is empty and reports a next pointer; the course of page 1 is returned
C36_Witness ==
    /\ client = "main"
    /\ Len(PageRequests) = 2
    /\ EmptyPageServed(2)
    /\ CatalogPage(catalog, 2).next
    /\ c_status = "returned"
    /\ Len(c_result) > 0


\* the page requests of a run of main(), in order
CoursePageRequests == SelectSeq(events, LAMBDA e : e[1] = "GET" /\ e[2] = "courses")

\* the request or the decoding of its answer raised: a network error or a
\* timeout, or a 200 whose JSON body is not an object
PageRaised(resp) ==
    resp.net = "error" \/ (resp.net = "ok" /\ resp.status = 200 /\ resp.body = "badshape")

(***************************************************************************)
(* C32: in main.get_all_courses an exception raised while page k is        *)
(* requested or decoded makes the function return the empty sequence, the  *)
(* courses of pages 1 .. k-1 discarded, and raise nothing; main() then     *)
(* takes the run as one that found no course: no report is triggered and   *)
(* the exit code is 1.                                                     *)
(***************************************************************************)
C32_ExceptionDiscardsCourses ==
    \A k \in 1 .. Len(CoursePageRequests) :
        PageRaised(CoursePageRequests[k][5]) =>
            /\ k = Len(CoursePageRequests)
            /\ c_status = "returned"
            /\ c_result = <<>>
            /\ Filter(events, "op") = <<>>
            /\ pc \in {"courses", "done"}
            /\ pc = "done" => exit_code = 1

\* page 1 gave a course, page 2 timed out, and main() has ended
C32_Witness ==
    /\ Len(CoursePageRequests) = 2
    /\ CoursePageRequests[1][5] = GoodResponse
    /\ CatalogPage(catalog, 1).results # <<>>
    /\ CoursePageRequests[2][5] = NetError
    /\ c_result = <<>>
    /\ pc = "done"
    /\ exit_code = 1


\* what the caller of retry_operation gets: how the call ended, and the value
RetryOutcome == <<r_status, r_result>>

\* the outcome of a call whose operation succeeded with the value None
SucceededWithNone == <<"returned", None>>

(***************************************************************************)
(* C37: retry_operation called with max_retries <= 0 never invokes the     *)
(* operation and never sleeps, and it returns None without raising: the    *)
(* outcome the caller gets is that of an operation which succeeded with    *)
(* the value None.                                                         *)
(***************************************************************************)
C37_NoAttemptsReturnsNone ==
    max_retries <= 0 =>
        /\ events = <<>>
        /\ r_status \in {"loop", "returned"}
        /\ r_status # "loop" => RetryOutcome = SucceededWithNone

\* max_retries = 0: the call has returned None with nothing invoked
C37_Witness ==
    /\ max_retries = 0
    /\ RetryOutcome = SucceededWithNone
    /\ OpCalls = <<>>
    /\ Sleeps = <<>>

\* the same outcome after an operation that returned None at its first call
C37_SameOutcomeAfterSuccess ==
    /\ max_retries >= 1
    /\ RetryOutcome = SucceededWithNone
    /\ Len(OpCalls) = 1
    /\ OpCalls[1][3] = [ok |-> TRUE, val |-> None]


\* the report POSTs of the history
ReportPosts == SelectSeq(events, LAMBDA e : e[1] = "POST" /\ e[2] = "report")

\* the report POSTs for the course at position j
CoursePosts(j) == SelectSeq(ReportPosts, LAMBDA e : e[3] = j)

\* the list main() got from get_all_courses (empty before it has returned)
ListedCourses == IF c_status = "returned" THEN c_result ELSE <<>>

\* the batch loop is past the course at position j
Processed(j) ==
    /\ Listed
    /\ j \in 1 .. Len(c_result)
    /\ \/ j < loop_i
       \/ j = loop_i /\ pc \in {"loop", "done"}

(***************************************************************************)
(* C33: within one batch run generate_grade_report is invoked at least     *)
(* once and at most 2 times (max_retries) for every course with an id, so  *)
(* at most 2 POSTs are sent for it; it is invoked again only after an      *)
(* invocation that failed, never after one that succeeded; no course       *)
(* without an id is tried; and the POSTs of the run number at most         *)
(* 2 * len(courses).                                                       *)
(***************************************************************************)
C33_AttemptsPerCourse ==
    LET cs == ListedCourses IN
    /\ \A j \in 1 .. Len(cs) :
          LET calls == CourseCalls(j) IN
          /\ Len(calls) <= 2
          /\ Len(calls) <= MainMaxRetries
          /\ Len(CoursePosts(j)) <= 2
          /\ \A n \in 2 .. Len(calls) : ~calls[n - 1][3].ok
          /\ ~cs[j].has_id => calls = <<>>
          /\ (Processed(j) /\ cs[j].has_id) => Len(calls) >= 1
    /\ Len(OpCalls) <= 2 * Len(cs)
    /\ Len(ReportPosts) <= 2 * Len(cs)
    /\ (pc = "done" /\ Listed) => \A j \in 1 .. Len(cs) : Processed(j)

\* two courses: the first failed twice, the second succeeded at its second
\* attempt; three POSTs had been sent when the run ended
C33_Witness ==
    /\ pc = "done"
    /\ Len(c_result) = 2
    /\ Len(CourseCalls(1)) = 2
    /\ CourseFailed(1)
    /\ Len(CourseCalls(2)) = 2
    /\ CourseSucceeded(2)
    /\ Len(ReportPosts) >= 3


\* the courses the batch loop is past, by how their processing ended
CountedSucceeded == {j \in 1 .. Len(ListedCourses) : Processed(j) /\ CourseSucceeded(j)}
CountedFailed == {j \in 1 .. Len(ListedCourses) : Processed(j) /\ CourseFailed(j)}
ProcessedWithId == {j \in 1 .. Len(ListedCourses) : Processed(j) /\ ListedCourses[j].has_id}

(***************************************************************************)
(* C34: at every point of the batch loop success_count + failure_count is  *)
(* the number of courses with an id processed so far: every such course    *)
(* raised exactly one of the two counters by one (success_count when a     *)
(* call succeeded, failure_count when its attempts were used up), a course *)
(* without an id raised neither; when the loop has ended the sum is at     *)
(* most len(courses), and equal to it exactly when every course has an id. *)
(***************************************************************************)
C34_CountersPartitionCourses ==
    (pc \in {"loop", "retry", "done"} /\ Listed) =>
        /\ success_count = Cardinality(CountedSucceeded)
        /\ failure_count = Cardinality(CountedFailed)
        /\ CountedSucceeded \cap CountedFailed = {}
        /\ CountedSucceeded \cup CountedFailed = ProcessedWithId
        /\ success_count + failure_count = Cardinality(ProcessedWithId)
        /\ pc = "done" =>
              /\ success_count + failure_count <= Len(c_result)
              /\ (success_count + failure_count = Len(c_result))
                    = (\A j \in 1 .. Len(c_result) : c_result[j].has_id)

\* two courses with an id, one succeeded and one failed, and the run has ended
C34_Witness ==
    /\ pc = "done"
    /\ Listed
    /\ Len(c_result) = 2
    /\ success_count = 1
    /\ failure_count = 1


\* ---- SpecMainLive: one run of main(), which keeps running ----
\* endpoints that report a next pointer on every page, one course a page, of
\* which at most the first has an id
EndlessCatalogs ==
    {cat \in Catalogs({0}, {1}, SUBSET {<<p, 1>> : p \in 1 .. MaxPages}, {0}) :
        {<<p, 1>> : p \in 2 .. MaxPages} \subseteq cat.noid}

InitMainLive ==
    /\ events = <<>>
    /\ RetryIdle
    /\ \E cat \in MainCatalogs \cup EndlessCatalogs : InitCatalogCall("main", cat)
    /\ pc = "login_home"
    /\ session = NewSession
    /\ csrftoken = NoToken
    /\ l_status = "running"
    /\ loop_i = 0
    /\ success_count = 0
    /\ failure_count = 0
    /\ exit_code = None
    /\ l_error = NoError
    /\ log = <<>>
    /\ platform \in MainProbeInputs
    /\ ReportsIdle
    /\ ScanIdle
    /\ IdsIdle
    /\ env = SuppliedEnv

\* what every step of main() moves: the program position, the history or the
\* index of the batch loop
mainProgress == <<pc, events, loop_i>>

\* every HTTP request returns or times out and every sleep ends, so the
\* interpreter goes on to the next step of main() while there is one
SpecMainLive == InitMainLive /\ [][NextMain]_vars /\ WF_mainProgress(NextMain)

\* the requests of the login handshake (home page, CSRF API, login POST): the
\* requests made before get_user_info is called
HandshakeRequests ==
    IF pc \in {"login_home", "login_csrf", "login_post", "user_info"} \/ l_status = "raised"
    THEN events
    ELSE SubSeq(events, 1, CHOOSE k \in 1 .. Len(events) :
                               events[k][1] = "POST" /\ events[k][2] = "login")

\* main() has ended with an exit code
MainExited == IF pc = "done" THEN exit_code \in {0, 1} ELSE FALSE

\* the steps a batch loop that stands before course i + 1 of n can still take:
\* for every course its start, max_retries attempts and the counting, then the end
LoopStepsLeft(i, n) == 1 + (n - i) * (MainMaxRetries + 2)

\* a bound on the steps main() can still take, by its position
StepsLeft ==
    LET listMax == LoopStepsLeft(0, PageCap * MaxPageLen) IN
    CASE pc = "done" -> 0
      [] pc = "loop" -> LoopStepsLeft(loop_i, Len(c_result))
      [] pc = "retry" -> (IF r_status = "loop" THEN max_retries - attempt ELSE 0)
                          + 1 + LoopStepsLeft(loop_i, Len(c_result))
      [] pc = "courses" -> (IF c_status = "loop" THEN PageCap + 1 - page ELSE 0)
                            + 1 + listMax
      [] pc = "user_info" -> PageCap + 3 + listMax
      [] pc = "login_post" -> PageCap + 4 + listMax
      [] pc = "login_csrf" -> PageCap + 5 + listMax
      [] OTHER -> PageCap + 6 + listMax

\* the bounds on the work of a run
MainWorkBounded ==
    /\ Len(HandshakeRequests) <= 3
    /\ Len(CoursePageRequests) <= PageCap
    /\ \A j \in 1 .. Len(ListedCourses) : Len(CourseCalls(j)) <= MainMaxRetries
    /\ Len(Filter(events, "sleep")) <= 2 * Len(ListedCourses)
    /\ \A i \in 1 .. Len(Filter(events, "sleep")) :
          Filter(events, "sleep")[i][2] \in {MainDelay, PacingDelay}
    /\ \A m, n \in 1 .. Len(FirstCalls) : m < n => FirstCalls[m] < FirstCalls[n]
    /\ loop_i <= Len(ListedCourses)

\* main() has ended with an exit code, or it has a next step to take
ExitedOrRunning == MainExited \/ (pc # "done" /\ ENABLED NextMain)

(***************************************************************************)
(* C35: when every HTTP request returns or times out, main() ends with an  *)
(* exit code whatever the course list: the handshake is at most 3          *)
(* requests, the enumeration at most 10 page requests, every course gets   *)
(* at most max_retries invocations with sleeps of 5 or 2 seconds between   *)
(* them, and no course is visited twice.  A run that has not ended with an *)
(* exit code has a next step, and every step lowers StepsLeft, which is    *)
(* never negative: under the fairness of SpecMainLive the run ends.        *)
(***************************************************************************)
C35_MainTerminates ==
    /\ [](MainWorkBounded /\ ExitedOrRunning /\ StepsLeft >= 0)
    /\ [][StepsLeft' < StepsLeft]_mainProgress

\* the run over an endpoint with a next pointer on every page has ended after
\* 10 page requests
C35_Witness ==
    /\ MainExited
    /\ catalog.last = 0
    /\ Len(CoursePageRequests) = PageCap
    /\ Len(c_result) = PageCap
    /\ loop_i = PageCap
====
